---------------------------- MODULE Spec2Model ----------------------------
(***************************************************************************)
(* The receive side of the RTP endpoint: RTPReceiver of                    *)
(* src/modules/rtp_rtcp/source/rtp_receiver.cc.                            *)
(*                                                                         *)
(* rcv holds the fields of the RTPReceiver object, reg the fields of the   *)
(* payload registry it owns, mutex the owner of                            *)
(* critical_section_rtp_receiver_, clock the injected millisecond clock.   *)
(* rx and tm are the stack frames of the receive thread (inside            *)
(* IncomingRTPPacket) and of the timer thread (inside PacketTimeout):      *)
(* their position (pc), their locals and the callbacks they fired.         *)
(* stat records the last two Statistics calls; gh is history kept only to  *)
(* state properties.                                                       *)
(*                                                                         *)
(* The code of a handler is written once, as a step function on            *)
(* (shared state, frame): RxStep and TmStep.  One step is one critical     *)
(* section, the end of its scope, or one stretch of unlocked code.  The    *)
(* sequential specifications run a handler to completion in one action;    *)
(* the threaded specification runs it one step at a time.                  *)
(*                                                                         *)
(* TLC's integers are 32 bits wide and signed.  16-bit fields are reduced  *)
(* modulo 2^16 (U16).  A 32-bit unsigned field is represented by the       *)
(* signed value it is congruent to modulo 2^32: a negative representative  *)
(* r stands for r + 2^32, which is larger than every value of 31 bits.     *)
(***************************************************************************)
EXTENDS Integers, Sequences, FiniteSets, TLC

VARIABLES rcv, reg, mutex, clock, rx, tm, stat, gh

vars == <<rcv, reg, mutex, clock, rx, tm, stat, gh>>

---------------------------------------------------------------------------
(* Bounds of the model. *)

(* The operations (packets, calls of the host, clock ticks) of a run. *)
MaxSteps == 5

---------------------------------------------------------------------------
(* Program constants. *)

kDefaultMaxReorderingThreshold == 50
kRtpCsrcSize == 15
kDefaultVideoFrequency == 90000
kJitterJumpThreshold == 450000
kInitialPacketOverhead == 12
kAliveWindowMs == 1000

(* NACKMethod *)
kNackOff == "kNackOff"
kNackRtcp == "kNackRtcp"

(* Owners of critical_section_rtp_receiver_. *)
NoThread == "none"
RxThread == "rx"
TimerThread == "timer"
HostThread == "host"
(* The mutex after the destructor deleted it. *)
Deleted == "deleted"

---------------------------------------------------------------------------
(* Fixed-width arithmetic. *)

U8(x) == x % 256

U16(x) == x % 65536

(* x >> 4 on a signed 32-bit value: the arithmetic shift rounds down. *)
Shr4(x) == x \div 16

Abs(x) == IF x < 0 THEN 0 - x ELSE x

(* a > b where b is a 32-bit unsigned value given by its representative. *)
GreaterThanU32(a, b) == b >= 0 /\ a > b

RECURSIVE SqrtFrom(_, _)
SqrtFrom(n, r) == IF (r + 1) * (r + 1) > n THEN r ELSE SqrtFrom(n, r + 1)

(* floor(sqrt(n)) *)
ISqrt(n) == SqrtFrom(n, 0)


---------------------------------------------------------------------------
(* The payload registry (RTPPayloadRegistry) and the media strategy        *)
(* (RTPReceiverStrategy) are collaborators of the receiver.                *)

(* The sample rate of the audio strategy's payloads. *)
kAudioFrequency == 8000

(* Payload-type numbers the host registers, and one it never registers. *)
kPcmu == 0
kPcma == 8
kVp8 == 96
kUlpfec == 97
kRed == 127
kUnknownPayloadType == 99

(* The descriptor a payload type is registered with. *)
PayloadSpec(pt) ==
  [audio |-> pt \notin {kVp8, kUlpfec},
   frequency |-> IF pt \in {kVp8, kUlpfec} THEN kDefaultVideoFrequency
                 ELSE kAudioFrequency,
   channels |-> 1,
   rate |-> 0,
   red |-> (pt = kRed),
   fec |-> (pt = kUlpfec)]

(* reg: the registry's fields, with the media strategy's variant (video)   *)
(* and its last media-specific payload (the payload type it belongs to).   *)
RegistryInit ==
  [payload_type_map |-> {},
   red_payload_type |-> -1,
   last_received_payload_type |-> -1,
   last_received_media_payload_type |-> -1,
   last_media_specific_payload |-> -1,
   video |-> FALSE]

(* RTPPayloadRegistry::RegisterReceivePayload *)
RegistryRegister(g, pt) ==
  [g EXCEPT !.payload_type_map = @ \cup {pt},
            !.red_payload_type = IF PayloadSpec(pt).red THEN pt ELSE @]

(* RTPPayloadRegistry::DeRegisterReceivePayload *)
RegistryDeRegister(g, pt) ==
  [g EXCEPT !.payload_type_map = @ \ {pt}]

(* RTPPayloadRegistry::ResetLastReceivedPayloadTypes *)
ResetLastReceivedPayloadTypes(g) ==
  [g EXCEPT !.last_received_payload_type = -1,
            !.last_received_media_payload_type = -1]

(* RTPPayloadRegistry::PayloadTypeToPayload: 0 when the type is registered *)
PayloadTypeToPayload(g, pt) == IF pt \in g.payload_type_map THEN 0 ELSE -1

(* RTPReceiver::REDPayloadType(payload_type) *)
REDPayloadType(g, pt) == g.red_payload_type = pt

(* RTPReceiverStrategy::GetFrequencyHz: the audio or the video strategy's *)
GetFrequencyHz(g) == IF g.video THEN kDefaultVideoFrequency ELSE kAudioFrequency

(* ModuleRTPUtility::GetCurrentRTP: the clock in samples of the media clock *)
GetCurrentRTP(now, frequency_hz) == now * (frequency_hz \div 1000)

(* ModuleRTPUtility::GetPayloadDataLength, as a 16-bit unsigned value *)
GetPayloadDataLength(hdr, packet_length) ==
  U16(packet_length - hdr.paddingLength - hdr.headerLength)

---------------------------------------------------------------------------
(* The receiver object. *)

(* The fields after RTPReceiver::RTPReceiver. *)
ReceiverInit ==
  [last_receive_time_ |-> 0,
   last_received_payload_length_ |-> 0,
   packet_timeout_ms_ |-> 0,
   ssrc_ |-> 0,
   num_csrcs_ |-> 0,
   current_remote_csrc_ |-> [i \in 1..kRtpCsrcSize |-> 0],
   num_energy_ |-> 0,
   use_ssrc_filter_ |-> FALSE,
   ssrc_filter_ |-> 0,
   jitter_q4_ |-> 0,
   jitter_max_q4_ |-> 0,
   cumulative_loss_ |-> 0,
   jitter_q4_transmission_time_offset_ |-> 0,
   local_time_last_received_timestamp_ |-> 0,
   last_received_frame_time_ms_ |-> 0,
   last_received_timestamp_ |-> 0,
   last_received_sequence_number_ |-> 0,
   last_received_transmission_time_offset_ |-> 0,
   received_seq_first_ |-> 0,
   received_seq_max_ |-> 0,
   received_seq_wraps_ |-> 0,
   received_packet_oh_ |-> kInitialPacketOverhead,
   received_byte_count_ |-> 0,
   received_old_packet_count_ |-> 0,
   received_inorder_packet_count_ |-> 0,
   last_report_inorder_packets_ |-> 0,
   last_report_old_packets_ |-> 0,
   last_report_seq_max_ |-> 0,
   last_report_fraction_lost_ |-> 0,
   last_report_cumulative_lost_ |-> 0,
   last_report_extended_high_seq_num_ |-> 0,
   last_report_jitter_ |-> 0,
   last_report_jitter_transmission_time_offset_ |-> 0,
   nack_method_ |-> kNackOff,
   max_reordering_threshold_ |-> kDefaultMaxReorderingThreshold,
   rtx_ |-> FALSE,
   ssrc_rtx_ |-> 0]

(* A receiver that never counts as idle. *)
HaveNotReceivedPacketsUnknown(r) == FALSE

(* RTPReceiver::HaveNotReceivedPackets *)
HaveNotReceivedPackets(r) == r.last_receive_time_ = 0

(* RTPReceiver::ResetStatistics *)
ResetStatistics(r) ==
  [r EXCEPT !.last_report_inorder_packets_ = 0,
            !.last_report_old_packets_ = 0,
            !.last_report_seq_max_ = 0,
            !.last_report_fraction_lost_ = 0,
            !.last_report_cumulative_lost_ = 0,
            !.last_report_extended_high_seq_num_ = 0,
            !.last_report_jitter_ = 0,
            !.last_report_jitter_transmission_time_offset_ = 0,
            !.jitter_q4_ = 0,
            !.jitter_max_q4_ = 0,
            !.cumulative_loss_ = 0,
            !.jitter_q4_transmission_time_offset_ = 0,
            !.received_seq_wraps_ = 0,
            !.received_seq_max_ = 0,
            !.received_seq_first_ = 0,
            !.received_byte_count_ = 0,
            !.received_old_packet_count_ = 0,
            !.received_inorder_packet_count_ = 0]

(* RTPReceiver::ResetDataCounters *)
ResetDataCounters(r) ==
  [r EXCEPT !.received_byte_count_ = 0,
            !.received_old_packet_count_ = 0,
            !.received_inorder_packet_count_ = 0,
            !.last_report_inorder_packets_ = 0]

(* RTPReceiver::InOrderPacket *)
(* InOrderPacket without the wrap-around detection: a plain comparison. *)
(* A comparator that takes the boundary as a wrap in either direction. *)
InOrderPacketEitherWay(r, sequence_number) ==
  IF r.received_seq_max_ >= sequence_number
  THEN IF ~(r.received_seq_max_ > 65280 /\ sequence_number < 255)
       THEN r.received_seq_max_ - r.max_reordering_threshold_ > sequence_number
       ELSE TRUE
  ELSE TRUE

InOrderPacketNoWrap(r, sequence_number) ==
  sequence_number > r.received_seq_max_

InOrderPacket(r, sequence_number) ==
  IF r.received_seq_max_ >= sequence_number
  THEN IF ~(r.received_seq_max_ > 65280 /\ sequence_number < 255)
       THEN r.received_seq_max_ - r.max_reordering_threshold_ > sequence_number
       ELSE TRUE
  ELSE IF sequence_number > 65280 /\ r.received_seq_max_ < 255
       THEN r.received_seq_max_ - r.max_reordering_threshold_ > sequence_number
       ELSE TRUE

(* The delay bound of RetransmitOfOldPacket. *)
MaxDelayMs(r, min_rtt, frequency_khz) ==
  IF min_rtt = 0
  THEN LET jitter == Shr4(r.jitter_q4_)
           d == ISqrt(4 * jitter) \div frequency_khz
       IN IF d = 0 THEN 1 ELSE d
  ELSE (min_rtt \div 3) + 1

(* The signed division of RetransmitOfOldPacket, truncating toward zero. *)
DivTrunc(a, b) == IF a >= 0 THEN a \div b ELSE 0 - ((0 - a) \div b)

(* RTPReceiver::RetransmitOfOldPacket *)
RetransmitOfOldPacket(r, sequence_number, rtp_time_stamp, now, min_rtt, hz) ==
  IF InOrderPacket(r, sequence_number)
  THEN FALSE
  ELSE LET frequency_khz == hz \div 1000
           time_diff_ms == now - r.last_receive_time_
           rtp_time_stamp_diff_ms ==
             DivTrunc(rtp_time_stamp - r.last_received_timestamp_, frequency_khz)
       IN time_diff_ms >
            rtp_time_stamp_diff_ms + MaxDelayMs(r, min_rtt, frequency_khz)

(* One jitter update in Q4, skipped for a jump of 450000 samples or more. *)
JitterUpdateTruncating(jitter_q4, time_diff_samples) ==
  IF time_diff_samples < kJitterJumpThreshold
  THEN jitter_q4 + Shr4((time_diff_samples * 16) - jitter_q4)
  ELSE jitter_q4

JitterUpdate(jitter_q4, time_diff_samples) ==
  IF time_diff_samples < kJitterJumpThreshold
  THEN jitter_q4 + Shr4((time_diff_samples * 16) - jitter_q4 + 8)
  ELSE jitter_q4

(* The first-packet test of UpdateStatistics. *)
IsFirstReport(r) == r.received_seq_max_ = 0 /\ r.received_seq_wraps_ = 0

(* UpdateStatistics lines 456-460: the bytes are counted first. *)
CountBytes(r, bytes) == [r EXCEPT !.received_byte_count_ = @ + bytes]

(* UpdateStatistics lines 462-537, on the receiver r0 whose bytes have     *)
(* been counted: the sequence tracking, the jitter and the packet counts.  *)
UpdateCounts(r0, hdr, old_packet, now, frequency_hz) ==
  LET RTPtime == GetCurrentRTP(now, frequency_hz)
      packet_oh == U16(hdr.headerLength + hdr.paddingLength)
      oh(q) == [q EXCEPT !.received_packet_oh_ =
                           U16((15 * q.received_packet_oh_ + packet_oh) \div 16)]
  IN
  IF IsFirstReport(r0)
  THEN [r0 EXCEPT !.received_seq_first_ = hdr.sequenceNumber,
                  !.received_seq_max_ = hdr.sequenceNumber,
                  !.received_inorder_packet_count_ = 1,
                  !.local_time_last_received_timestamp_ = RTPtime]
  ELSE IF InOrderPacket(r0, hdr.sequenceNumber)
  THEN LET seq_diff == hdr.sequenceNumber - r0.received_seq_max_
           count == r0.received_inorder_packet_count_ + 1
           time_diff_samples ==
             Abs((RTPtime - r0.local_time_last_received_timestamp_)
                 - (hdr.timestamp - r0.last_received_timestamp_))
           time_diff_samples_ext ==
             Abs((RTPtime - r0.local_time_last_received_timestamp_)
                 - ((hdr.timestamp + hdr.transmissionTimeOffset)
                    - (r0.last_received_timestamp_
                       + r0.last_received_transmission_time_offset_)))
           update == hdr.timestamp # r0.last_received_timestamp_ /\ count > 1
       IN oh([r0 EXCEPT
                !.received_inorder_packet_count_ = count,
                !.received_seq_wraps_ = IF seq_diff < 0 THEN @ + 1 ELSE @,
                !.received_seq_max_ = hdr.sequenceNumber,
                !.jitter_q4_ =
                   IF update THEN JitterUpdate(@, time_diff_samples) ELSE @,
                !.jitter_q4_transmission_time_offset_ =
                   IF update THEN JitterUpdate(@, time_diff_samples_ext) ELSE @,
                !.local_time_last_received_timestamp_ = RTPtime])
  ELSE IF old_packet
  THEN oh([r0 EXCEPT !.received_old_packet_count_ = @ + 1])
  ELSE oh([r0 EXCEPT !.received_inorder_packet_count_ = @ + 1])

(* RTPReceiver::UpdateStatistics *)
UpdateStatistics(r, hdr, bytes, old_packet, now, frequency_hz) ==
  UpdateCounts(CountBytes(r, bytes), hdr, old_packet, now, frequency_hz)


(* The outputs of a Statistics call that returned -1. *)
NoReport ==
  [ret |-> -1, fraction_lost |-> 0, cum_lost |-> 0, ext_max |-> 0,
   jitter |-> 0, max_jitter |-> 0, jitter_transmission_time_offset |-> 0,
   missing |-> 0, exp_since_last |-> 0, rec_since_last |-> 0]

(* LastReport reading the running jitter instead of the stored one. *)
LastReportLive(r) ==
  [ret |-> 0,
   fraction_lost |-> r.last_report_fraction_lost_,
   cum_lost |-> r.last_report_cumulative_lost_,
   ext_max |-> r.last_report_extended_high_seq_num_,
   jitter |-> Shr4(r.jitter_q4_),
   max_jitter |-> Shr4(r.jitter_max_q4_),
   jitter_transmission_time_offset |->
     r.last_report_jitter_transmission_time_offset_,
   missing |-> 0, exp_since_last |-> 0, rec_since_last |-> 0]

(* The report of Statistics(reset = false): the stored snapshot. *)
LastReport(r) ==
  [ret |-> 0,
   fraction_lost |-> r.last_report_fraction_lost_,
   cum_lost |-> r.last_report_cumulative_lost_,
   ext_max |-> r.last_report_extended_high_seq_num_,
   jitter |-> r.last_report_jitter_,
   max_jitter |-> Shr4(r.jitter_max_q4_),
   jitter_transmission_time_offset |->
     r.last_report_jitter_transmission_time_offset_,
   missing |-> 0, exp_since_last |-> 0, rec_since_last |-> 0]

(* FirstReportSeqMax counting from the first packet, not from before it. *)
FirstReportSeqMaxAtFirst(r) == r.received_seq_first_

(* The sequence number the first report counts from. *)
FirstReportSeqMax(r) == U16(r.received_seq_first_ - 1)

(* The packets expected since the last report, as Statistics computes them. *)
ExpSinceLast(seq_max, last_seq_max) ==
  IF last_seq_max > seq_max THEN 0 ELSE U16(seq_max - last_seq_max)

(* The packets received since the last report, as Statistics counts them. *)
RecSinceLast(r) ==
  (r.received_inorder_packet_count_ - r.last_report_inorder_packets_)
  + (IF r.nack_method_ = kNackOff
     THEN r.received_old_packet_count_ - r.last_report_old_packets_
     ELSE 0)

(* RTPReceiver::Statistics: the receiver after the call and the outputs. *)
Statistics(r, reset) ==
  IF r.received_seq_first_ = 0 /\ r.received_byte_count_ = 0
  THEN [r |-> r, out |-> NoReport]
  ELSE IF ~reset
  THEN IF r.last_report_inorder_packets_ = 0
       THEN [r |-> r, out |-> NoReport]
       ELSE [r |-> r, out |-> LastReport(r)]
  ELSE
  LET last_seq_max == IF r.last_report_inorder_packets_ = 0
                      THEN FirstReportSeqMax(r)
                      ELSE r.last_report_seq_max_
      exp_since_last == ExpSinceLast(r.received_seq_max_, last_seq_max)
      rec_since_last == RecSinceLast(r)
      missing == IF GreaterThanU32(exp_since_last, rec_since_last)
                 THEN exp_since_last - rec_since_last
                 ELSE 0
      local_fraction_lost ==
        IF exp_since_last # 0
        THEN U8((255 * missing) \div exp_since_last)
        ELSE 0
      cumulative_loss == r.cumulative_loss_ + missing
      jitter_max_q4 == IF r.jitter_q4_ > r.jitter_max_q4_
                       THEN r.jitter_q4_
                       ELSE r.jitter_max_q4_
      ext_max == (r.received_seq_wraps_ * 65536) + r.received_seq_max_
  IN [r |-> [r EXCEPT
               !.cumulative_loss_ = cumulative_loss,
               !.jitter_max_q4_ = jitter_max_q4,
               !.last_report_fraction_lost_ = local_fraction_lost,
               !.last_report_cumulative_lost_ = cumulative_loss,
               !.last_report_extended_high_seq_num_ = ext_max,
               !.last_report_jitter_ = Shr4(r.jitter_q4_),
               !.last_report_jitter_transmission_time_offset_ =
                  Shr4(r.jitter_q4_transmission_time_offset_),
               !.last_report_inorder_packets_ =
                  r.received_inorder_packet_count_,
               !.last_report_old_packets_ = r.received_old_packet_count_,
               !.last_report_seq_max_ = r.received_seq_max_],
      out |-> [ret |-> 0,
               fraction_lost |-> local_fraction_lost,
               cum_lost |-> cumulative_loss,
               ext_max |-> ext_max,
               jitter |-> Shr4(r.jitter_q4_),
               max_jitter |-> Shr4(jitter_max_q4),
               jitter_transmission_time_offset |->
                 Shr4(r.jitter_q4_transmission_time_offset_),
               missing |-> missing,
               exp_since_last |-> exp_since_last,
               rec_since_last |-> rec_since_last]]

(* RTPReceiver::SetNACKStatus: the receiver after the call (unchanged when *)
(* the threshold is negative and the call returns -1).                     *)
SetNACKStatus(r, method, max_reordering_threshold) ==
  IF max_reordering_threshold < 0
  THEN r
  ELSE [r EXCEPT
          !.max_reordering_threshold_ =
             IF method = kNackRtcp THEN max_reordering_threshold
             ELSE kDefaultMaxReorderingThreshold,
          !.nack_method_ = method]

(* RTPReceiver::SetRTXStatus *)
SetRTXStatus(r, enable, ssrc) == [r EXCEPT !.rtx_ = enable, !.ssrc_rtx_ = ssrc]

(* RTPReceiver::SetSSRCFilter *)
SetSSRCFilter(r, enable, allowed_ssrc) ==
  [r EXCEPT !.use_ssrc_filter_ = enable,
            !.ssrc_filter_ = IF enable THEN allowed_ssrc ELSE 0]

(* RTPReceiver::SetPacketTimeout *)
SetPacketTimeout(r, timeout_ms) == [r EXCEPT !.packet_timeout_ms_ = timeout_ms]


---------------------------------------------------------------------------
(* Stack frames and callbacks. *)

(* The parsed header of a packet (WebRtcRTPHeader). *)
NoHeader ==
  [ssrc |-> 0, sequenceNumber |-> 0, timestamp |-> 0, payloadType |-> 0,
   headerLength |-> 0, paddingLength |-> 0, arrOfCSRCs |-> << >>,
   transmissionTimeOffset |-> 0, numEnergy |-> 0]

(* What the collaborators answer during one IncomingRTPPacket call: the    *)
(* media strategy's ParseRtpPacket result (parse_ret), CheckPayloadChanged *)
(* flags (reset, discard) and ShouldReportCsrcChanges (report_csrc), the   *)
(* host's OnInitializeDecoder result (init_ret), the RTCP sender's minimum *)
(* round-trip time (min_rtt), and the byte that lies behind the packet     *)
(* buffer (oob).                                                           *)
DefaultEnv ==
  [parse_ret |-> 0, init_ret |-> 0, min_rtt |-> 0, reset |-> FALSE,
   discard |-> FALSE, report_csrc |-> TRUE, oob |-> 0]

(* The receiver and the registry as a call found them. *)
NoPre == [rcv |-> ReceiverInit, reg |-> RegistryInit]

(* The frame of the receive thread outside IncomingRTPPacket; pkt is the   *)
(* header as the caller handed it in, pre the state at the entry and       *)
(* first_payload_byte_index the index at which line 381 read the packet,   *)
(* -1 when it did not.                                                     *)
RxIdle ==
  [pc |-> "idle", hdr |-> NoHeader, packet_length |-> 0, body |-> << >>,
   body_offset |-> 0, env |-> DefaultEnv, length |-> 0,
   first_payload_byte |-> 0, new_ssrc |-> FALSE,
   re_initialize_decoder |-> FALSE, early_return |-> FALSE,
   is_red |-> FALSE, payload_type |-> 0, specific_payload |-> -1,
   re_initialize_payload |-> FALSE, check_payload_ret |-> 0,
   old_remote_csrc |-> << >>, num_csrcs_diff |-> 0, csrc_return |-> FALSE,
   is_first_packet |-> FALSE, payload_data_length |-> 0,
   old_packet |-> FALSE, cbs |-> << >>, pkt |-> NoHeader, pre |-> NoPre,
   first_payload_byte_index |-> -1]

(* The frame of the timer thread outside PacketTimeout. *)
TmIdle ==
  [pc |-> "idle", packet_time_out |-> FALSE, now |-> 0,
   last_receive_time |-> 0, cbs |-> << >>]

(* What CheckSSRCChanged found: whether the identity changed, the SSRC     *)
(* before, and the receiver as the critical section left it.               *)
NoIdentity == [changed |-> FALSE, old_ssrc |-> 0, after |-> ReceiverInit]

(* A call out of the receiver made by thread t: a host callback or a call  *)
(* of the media strategy, with whether t holds the receiver's mutex.       *)
Call(w, t, name, a, b) ==
  [name |-> name, a |-> a, b |-> b, locked |-> (w.mutex = t)]

HostCallbacks ==
  {"OnReceivedPacket", "OnIncomingSSRCChanged", "SetRemoteSSRC",
   "OnIncomingCSRCChanged", "OnInitializeDecoder", "OnPacketTimeout",
   "OnPeriodicDeadOrAlive"}

MediaStrategyCalls ==
  {"ParseRtpPacket", "CheckPayloadChanged", "InvokeOnInitializeDecoder",
   "ShouldReportCsrcChanges"}

(* A scope that takes nothing. *)
NoLock(m, t) == m

(* CriticalSectionScoped: the constructor takes the mutex ... *)
Lock(m, t) == t

(* A scope that does not end before the calls that follow it. *)
KeepLocked(m, t) == m

(* ... and the destructor, at the end of the scope, releases it. *)
Unlock(m, t) == IF m = t THEN NoThread ELSE m

(* The log h of the accesses to the receiver's members, with the accesses  *)
(* thread t makes to fields while the mutex is m: reads, or writes.        *)
Accessed(h, m, t, fields, write) ==
  h \union {[thread |-> t, field |-> x, write |-> write, locked |-> (m = t)] :
              x \in fields}

Range(q) == {q[i] : i \in 1..Len(q)}

(* packet[i] of the buffer handed to IncomingRTPPacket. *)
PacketByte(f, i) ==
  LET k == i - f.body_offset + 1
  IN IF i >= f.packet_length THEN f.env.oob
     ELSE IF k >= 1 /\ k <= Len(f.body) THEN f.body[k]
     ELSE 0

(* ResetStatistics, which also starts the history of counted packets anew. *)
(* No reset of the statistics. *)
KeepStatistics(w) == w

DoResetStatistics(w) ==
  [w EXCEPT !.rcv = ResetStatistics(w.rcv), !.gh.hist = << >>,
            !.gh.data_reset = FALSE, !.gh.reports = 0]

(* What is kept of a call that returned: its name, its return code, the    *)
(* header it worked on, the calls it made out of the receiver, and whether *)
(* it classified the packet as an old retransmission; of an ingress call   *)
(* also the header as it was handed in (pkt) and the state it found (pre). *)
Returned(op, code, hdr, cbs, old_packet) ==
  [op |-> op, ret |-> code, hdr |-> hdr, cbs |-> cbs,
   old_packet |-> old_packet, pkt |-> NoHeader, packet_length |-> 0,
   body |-> << >>, pre |-> NoPre, first_payload_byte_index |-> -1]

(* return code: the call is over and its frame is gone. *)
RxReturn(w, f, code) ==
  [w |-> [w EXCEPT !.gh.last =
                      [Returned("IncomingRTPPacket", code, f.hdr, f.cbs,
                                f.old_packet)
                         EXCEPT !.pkt = f.pkt,
                                !.packet_length = f.packet_length,
                                !.body = f.body, !.pre = f.pre,
                                !.first_payload_byte_index =
                                   f.first_payload_byte_index]],
   f |-> RxIdle]

(* IncomingRTPPacket lines 340-383: validation, RTX, SSRC filter, the      *)
(* first-packet callback and the first payload byte, all without the lock. *)
(* A sequence number read least significant byte first. *)
RtxSequenceNumberSwapped(f, headerLength) ==
  U16((PacketByte(f, 1 + headerLength) * 256) + PacketByte(f, headerLength))

(* IncomingRTPPacket lines 356-358: the original sequence number of an RTX *)
(* packet, (packet[headerLength] << 8) + packet[1 + headerLength].         *)
RtxSequenceNumber(f, headerLength) ==
  U16((PacketByte(f, headerLength) * 256) + PacketByte(f, 1 + headerLength))

RxValidate(w, f) ==
  LET r == w.rcv
      h0 == f.hdr
      length == f.packet_length - h0.paddingLength
      remap == r.rtx_ /\ r.ssrc_rtx_ = h0.ssrc
      h1 == IF remap
            THEN [h0 EXCEPT
                    !.ssrc = r.ssrc_,
                    !.sequenceNumber =
                       RtxSequenceNumber(f, h0.headerLength),
                    !.headerLength = @ + 2]
            ELSE h0
      kind == IF length - h1.headerLength = 0 THEN "kPacketKeepAlive"
              ELSE "kPacketRtp"
      first == r.last_receive_time_ = 0
      invalid == length - h0.headerLength < 0
      rtx_short == remap /\ h0.headerLength + 2 > f.packet_length
      filtered == r.use_ssrc_filter_ /\ h1.ssrc # r.ssrc_filter_
      reads ==
        IF invalid THEN {}
        ELSE {"rtx_"}
             \union (IF r.rtx_ THEN {"ssrc_rtx_"} ELSE {})
             \union
             (IF rtx_short THEN {}
              ELSE (IF remap THEN {"ssrc_"} ELSE {})
                   \union {"use_ssrc_filter_"}
                   \union (IF r.use_ssrc_filter_ THEN {"ssrc_filter_"}
                           ELSE {})
                   \union (IF filtered THEN {} ELSE {"last_receive_time_"}))
      wa == [w EXCEPT
               !.gh.acc = Accessed(@, w.mutex, RxThread, reads, FALSE)]
  IN
  IF invalid THEN RxReturn(wa, f, -1)
  ELSE IF rtx_short THEN RxReturn(wa, f, -1)
  ELSE IF filtered THEN RxReturn(wa, [f EXCEPT !.hdr = h1], -1)
  ELSE
  [w |-> [wa EXCEPT
            !.gh.on_received =
               IF first
               THEN Append(@, [ssrc |-> h1.ssrc,
                               keep_alive |-> kind = "kPacketKeepAlive",
                               body_length |-> length - h1.headerLength])
               ELSE @,
            !.gh.identity = NoIdentity],
   f |-> [f EXCEPT
            !.hdr = h1,
            !.length = length,
            !.first_payload_byte =
               IF length > 0 THEN PacketByte(f, h1.headerLength) ELSE 0,
            !.first_payload_byte_index =
               IF length > 0 THEN h1.headerLength ELSE -1,
            !.cbs = IF first
                    THEN Append(@, Call(w, RxThread, "OnReceivedPacket",
                                        0, kind = "kPacketKeepAlive"))
                    ELSE @,
            !.pc = "ssrc_cs"]]

(* CheckSSRCChanged lines 680-722: the critical section. *)
RxSsrcCs(w, f) ==
  LET r == w.rcv
      h == f.hdr
      last_received_payload_type == w.reg.last_received_payload_type
      changed == r.ssrc_ # h.ssrc
                 \/ (last_received_payload_type = -1 /\ r.ssrc_ = 0)
      same_codec == r.ssrc_ # 0 /\ h.payloadType = last_received_payload_type
      early == same_codec /\ PayloadTypeToPayload(w.reg, h.payloadType) # 0
      w1 == DoResetStatistics(w)
      r1 == [w1.rcv EXCEPT !.last_received_timestamp_ = 0,
                           !.last_received_sequence_number_ = 0,
                           !.last_received_transmission_time_offset_ = 0,
                           !.last_received_frame_time_ms_ = 0]
      r2 == IF early THEN r1 ELSE [r1 EXCEPT !.ssrc_ = h.ssrc]
      m == Lock(w.mutex, RxThread)
      read == Accessed(w.gh.acc, m, RxThread, {"ssrc_"}, FALSE)
  IN
  IF changed
  THEN [w |-> [w1 EXCEPT !.rcv = r2, !.mutex = m,
                         !.gh.identity = [changed |-> TRUE,
                                          old_ssrc |-> r.ssrc_,
                                          after |-> r2],
                         !.gh.acc =
                            Accessed(read, m, RxThread,
                                     IF early THEN {"statistics"}
                                     ELSE {"statistics", "ssrc_"}, TRUE)],
        f |-> [f EXCEPT !.new_ssrc = TRUE,
                        !.re_initialize_decoder = same_codec,
                        !.early_return = early,
                        !.pc = "ssrc_exit"]]
  ELSE [w |-> [w EXCEPT !.mutex = m, !.gh.acc = read],
        f |-> [f EXCEPT !.new_ssrc = FALSE,
                        !.re_initialize_decoder = FALSE,
                        !.early_return = FALSE,
                        !.pc = "ssrc_exit"]]

(* CheckSSRCChanged line 722 (or the return of line 706): end of scope. *)
RxSsrcExit(w, f) ==
  [w |-> [w EXCEPT !.mutex = Unlock(w.mutex, RxThread)],
   f |-> [f EXCEPT !.pc = IF f.new_ssrc /\ ~f.early_return
                          THEN "ssrc_cb" ELSE "payload_cs"]]

(* CheckSSRCChanged lines 723-738: the callbacks. *)
RxSsrcCallbacks(w, f) ==
  LET h == f.hdr
      c1 == << Call(w, RxThread, "SetRemoteSSRC", h.ssrc, FALSE),
               Call(w, RxThread, "OnIncomingSSRCChanged", h.ssrc, FALSE) >>
      c2 == IF f.re_initialize_decoder
            THEN << Call(w, RxThread, "OnInitializeDecoder",
                         h.payloadType, FALSE) >>
            ELSE << >>
  IN [w |-> w,
      f |-> [f EXCEPT !.cbs = @ \o c1 \o c2, !.pc = "payload_cs"]]


(* RTPPayloadRegistry::ReportMediaPayloadType: whether the media payload   *)
(* type is the one last reported.                                          *)
MediaTypeUnchanged(g, pt) == g.last_received_media_payload_type = pt

(* CheckPayloadChanged lines 758-834: the critical section.  The result is *)
(* the shared state and the frame at the end of the scope; ret is the      *)
(* value of a return made inside it, and 0 when it runs to its end.        *)
RxPayloadCs(w, f) ==
  LET g == w.reg
      last_received_payload_type == g.last_received_payload_type
      outer == f.hdr.payloadType
      is_red == outer # last_received_payload_type /\ REDPayloadType(g, outer)
      payload_type == IF is_red THEN f.first_payload_byte % 128 ELSE outer
      locked == [w EXCEPT !.mutex = Lock(w.mutex, RxThread)]
      done(w2, f2, ret, reinit) ==
        [w |-> w2,
         f |-> [f2 EXCEPT !.check_payload_ret = ret,
                          !.re_initialize_payload = reinit,
                          !.pc = "payload_exit"]]
      f0 == [f EXCEPT !.payload_type = payload_type, !.is_red = is_red,
                      !.specific_payload = -1]
      f1 == [f0 EXCEPT !.cbs = Append(@, Call(locked, RxThread,
                                              "CheckPayloadChanged",
                                              payload_type, f.env.discard))]
      w1 == IF f.env.reset THEN DoResetStatistics(locked) ELSE locked
      audio == PayloadSpec(payload_type).audio
      fec == PayloadSpec(payload_type).fec
      unchanged == MediaTypeUnchanged(g, payload_type)
      reinit == audio \/ (~fec /\ ~unchanged)
      g1 == [g EXCEPT
               !.last_received_payload_type = payload_type,
               !.last_media_specific_payload = payload_type,
               !.last_received_media_payload_type =
                  IF ~audio /\ ~fec THEN payload_type ELSE @]
      w2 == [w1 EXCEPT !.reg = g1]
  IN
  IF outer = last_received_payload_type
  THEN done(locked,
            [f0 EXCEPT !.specific_payload = g.last_media_specific_payload],
            0, FALSE)
  ELSE IF is_red /\ REDPayloadType(g, payload_type)
  THEN done(locked, f0, -1, FALSE)
  ELSE IF is_red /\ payload_type = last_received_payload_type
  THEN done(locked,
            [f0 EXCEPT !.specific_payload = g.last_media_specific_payload],
            0, FALSE)
  ELSE IF f.env.discard
  THEN done(w1, [f1 EXCEPT !.is_red = FALSE], 0, FALSE)
  ELSE IF PayloadTypeToPayload(g, payload_type) # 0
  THEN done(w1, f1, -1, FALSE)
  ELSE done(IF reinit THEN DoResetStatistics(w2) ELSE w2,
            [f1 EXCEPT !.specific_payload = payload_type],
            0, reinit)

(* What IncomingRTPPacket does with CheckPayloadChanged's -1 (lines        *)
(* 390-405): a packet without a body is a keep-alive and returns 0.        *)
RxPayloadFailed(w, f) ==
  RxReturn(w, f, IF f.length - f.hdr.headerLength = 0 THEN 0 ELSE -1)

(* CheckPayloadChanged line 834: end of scope. *)
RxPayloadExit(w, f) ==
  LET w1 == [w EXCEPT !.mutex = Unlock(w.mutex, RxThread)]
  IN IF f.check_payload_ret = -1 THEN RxPayloadFailed(w1, f)
     ELSE [w |-> w1,
           f |-> [f EXCEPT !.pc = IF f.re_initialize_payload
                                  THEN "payload_cb" ELSE "csrc_cs"]]

(* CheckPayloadChanged lines 836-843: the decoder is initialised through   *)
(* the media strategy, which calls the host's OnInitializeDecoder.         *)
RxPayloadCallbacks(w, f) ==
  LET f1 == [f EXCEPT
               !.cbs = @ \o << Call(w, RxThread, "InvokeOnInitializeDecoder",
                                    f.payload_type, FALSE),
                               Call(w, RxThread, "OnInitializeDecoder",
                                    f.payload_type, FALSE) >>]
  IN IF f.env.init_ret = -1
     THEN RxPayloadFailed(w, [f1 EXCEPT !.check_payload_ret = -1])
     ELSE [w |-> w, f |-> [f1 EXCEPT !.pc = "csrc_cs"]]

(* memcpy of n entries to the front of an array. *)
CopyFront(array, new, n) ==
  [i \in 1..Len(array) |-> IF i <= n THEN new[i] ELSE array[i]]

(* CheckCSRC lines 852-886: the critical section.  The logged call of     *)
(* ShouldReportCsrcChanges carries the answer.                             *)
RxCsrcCs(w, f) ==
  LET r == w.rcv
      locked == [w EXCEPT !.mutex = Lock(w.mutex, RxThread)]
      f1 == [f EXCEPT !.cbs = Append(@, Call(locked, RxThread,
                                             "ShouldReportCsrcChanges",
                                             f.hdr.payloadType,
                                             f.env.report_csrc))]
      old_num_csrcs == r.num_csrcs_
      old == SubSeq(r.current_remote_csrc_, 1, old_num_csrcs)
      num_csrcs == Len(f.hdr.arrOfCSRCs)
      copy == num_csrcs > 0 /\ num_csrcs <= kRtpCsrcSize
      r1 == [r EXCEPT
               !.num_energy_ = f.hdr.numEnergy,
               !.current_remote_csrc_ =
                  IF copy THEN CopyFront(@, f.hdr.arrOfCSRCs, num_csrcs)
                  ELSE @]
      change == num_csrcs > 0 \/ old_num_csrcs > 0
  IN
  IF ~f.env.report_csrc
  THEN [w |-> locked,
        f |-> [f1 EXCEPT !.csrc_return = TRUE, !.pc = "csrc_exit"]]
  ELSE [w |-> [locked EXCEPT
                 !.rcv = IF change THEN [r1 EXCEPT !.num_csrcs_ = num_csrcs]
                         ELSE r1],
        f |-> [f1 EXCEPT
                 !.old_remote_csrc = old,
                 !.num_csrcs_diff =
                    IF change THEN num_csrcs - old_num_csrcs ELSE 0,
                 !.csrc_return = ~change,
                 !.pc = "csrc_exit"]]

(* CheckCSRC line 886 (or the returns of lines 857 and 884): end of scope. *)
RxCsrcExit(w, f) ==
  [w |-> [w EXCEPT !.mutex = Unlock(w.mutex, RxThread)],
   f |-> [f EXCEPT !.pc = IF f.csrc_return THEN "parse" ELSE "csrc_cb"]]

(* CheckCSRC lines 888-932: the callbacks. *)
(* CheckCSRC without the test for a zero CSRC in the two scans. *)
CsrcCallbacksZeroToo(w, t, new, old, num_csrcs_diff) ==
  LET added == SelectSeq(new, LAMBDA c : c \notin Range(old))
      removed == SelectSeq(old, LAMBDA c : c \notin Range(new))
      on(q, flag) ==
        [i \in 1..Len(q) |->
           Call(w, t, "OnIncomingCSRCChanged", q[i], flag)]
      have_called_callback == Len(added) + Len(removed) > 0
  IN IF have_called_callback THEN on(added, TRUE) \o on(removed, FALSE)
     ELSE IF num_csrcs_diff > 0
     THEN << Call(w, t, "OnIncomingCSRCChanged", 0, TRUE) >>
     ELSE IF num_csrcs_diff < 0
     THEN << Call(w, t, "OnIncomingCSRCChanged", 0, FALSE) >>
     ELSE << >>

CsrcCallbacks(w, t, new, old, num_csrcs_diff) ==
  LET added == SelectSeq(new, LAMBDA c : c \notin Range(old) /\ c # 0)
      removed == SelectSeq(old, LAMBDA c : c \notin Range(new) /\ c # 0)
      on(q, flag) ==
        [i \in 1..Len(q) |->
           Call(w, t, "OnIncomingCSRCChanged", q[i], flag)]
      have_called_callback == Len(added) + Len(removed) > 0
  IN IF have_called_callback THEN on(added, TRUE) \o on(removed, FALSE)
     ELSE IF num_csrcs_diff > 0
     THEN << Call(w, t, "OnIncomingCSRCChanged", 0, TRUE) >>
     ELSE IF num_csrcs_diff < 0
     THEN << Call(w, t, "OnIncomingCSRCChanged", 0, FALSE) >>
     ELSE << >>

(* The OnIncomingCSRCChanged(c, added = true) callbacks made so far less   *)
(* the added = false ones, per value c, after the calls cbs were made.     *)
CsrcNetAfter(net, cbs) ==
  LET n(c, flag) ==
        Cardinality({i \in 1..Len(cbs) :
                       /\ cbs[i].name = "OnIncomingCSRCChanged"
                       /\ cbs[i].a = c
                       /\ cbs[i].b = flag})
  IN [c \in DOMAIN net |-> net[c] + n(c, TRUE) - n(c, FALSE)]

RxCsrcCallbacks(w, f) ==
  LET cbs == CsrcCallbacks(w, RxThread, f.hdr.arrOfCSRCs, f.old_remote_csrc,
                           f.num_csrcs_diff)
  IN [w |-> [w EXCEPT !.gh.csrc_net = CsrcNetAfter(@, cbs)],
      f |-> [f EXCEPT !.cbs = @ \o cbs, !.pc = "parse"]]

(* IncomingRTPPacket lines 408-422: the media strategy parses the packet.  *)
(* SequenceNumber() and TimeStamp() take the lock for the read.  The       *)
(* logged call of ParseRtpPacket carries is_first_packet.  The sum         *)
(* SequenceNumber() + 1 is an int and is not reduced to 16 bits.           *)
RxParse(w, f, now) ==
  LET r == w.rcv
      is_first_packet_in_frame ==
        r.last_received_sequence_number_ + 1 = f.hdr.sequenceNumber
        /\ r.last_received_timestamp_ # f.hdr.timestamp
      f1 == [f EXCEPT
               !.payload_data_length =
                  GetPayloadDataLength(f.hdr, f.packet_length),
               !.is_first_packet =
                  is_first_packet_in_frame \/ HaveNotReceivedPackets(r),
               !.cbs = Append(@, Call(w, RxThread, "ParseRtpPacket",
                                      f.hdr.sequenceNumber,
                                      is_first_packet_in_frame
                                      \/ HaveNotReceivedPackets(r)))]
      wa == [w EXCEPT
               !.gh.acc = Accessed(@, w.mutex, RxThread,
                                   IF is_first_packet_in_frame THEN {}
                                   ELSE {"last_receive_time_"}, FALSE)]
  IN IF f.env.parse_ret < 0 THEN RxReturn(wa, f1, f.env.parse_ret)
     ELSE [w |-> wa, f |-> [f1 EXCEPT !.pc = "final_cs"]]

(* StoreLastReceived leaving last_receive_time_ as it was. *)
StoreLastReceivedNoTime(r, hdr, payload_data_length, old_packet, now) ==
  LET r2 == [r EXCEPT !.last_received_payload_length_ = payload_data_length]
  IN IF old_packet THEN r2
     ELSE [r2 EXCEPT
             !.last_received_timestamp_ = hdr.timestamp,
             !.last_received_frame_time_ms_ =
                IF r.last_received_timestamp_ # hdr.timestamp
                THEN now ELSE @,
             !.last_received_sequence_number_ = hdr.sequenceNumber,
             !.last_received_transmission_time_offset_ =
                hdr.transmissionTimeOffset]

(* IncomingRTPPacket lines 434-446: what is stored after UpdateStatistics. *)
(* The final stores of IncomingRTPPacket without the test for an old       *)
(* packet.                                                                 *)
StoreLastReceivedAlways(r, hdr, payload_data_length, old_packet, now) ==
  [r EXCEPT !.last_receive_time_ = now,
            !.last_received_payload_length_ = payload_data_length,
            !.last_received_timestamp_ = hdr.timestamp,
            !.last_received_frame_time_ms_ =
               IF r.last_received_timestamp_ # hdr.timestamp THEN now ELSE @,
            !.last_received_sequence_number_ = hdr.sequenceNumber,
            !.last_received_transmission_time_offset_ =
               hdr.transmissionTimeOffset]

StoreLastReceived(r, hdr, payload_data_length, old_packet, now) ==
  LET r2 == [r EXCEPT !.last_receive_time_ = now,
                      !.last_received_payload_length_ = payload_data_length]
  IN IF old_packet THEN r2
     ELSE [r2 EXCEPT
             !.last_received_timestamp_ = hdr.timestamp,
             !.last_received_frame_time_ms_ =
                IF r.last_received_timestamp_ # hdr.timestamp
                THEN now ELSE @,
             !.last_received_sequence_number_ = hdr.sequenceNumber,
             !.last_received_transmission_time_offset_ =
                hdr.transmissionTimeOffset]

(* IncomingRTPPacket lines 424-432 and UpdateStatistics up to line 460:    *)
(* the lock is taken, the packet classified and its bytes counted.         *)
RxFinalCs(w, f, now) ==
  LET r == w.rcv
      h == f.hdr
      old_packet == RetransmitOfOldPacket(r, h.sequenceNumber, h.timestamp,
                                          now, f.env.min_rtt,
                                          GetFrequencyHz(w.reg))
      m == Lock(w.mutex, RxThread)
  IN [w |-> [w EXCEPT !.rcv = CountBytes(r, f.payload_data_length),
                      !.mutex = m,
                      !.gh.acc = Accessed(@, m, RxThread, {"statistics"},
                                          TRUE)],
      f |-> [f EXCEPT !.old_packet = old_packet, !.pc = "final_update"]]

(* UpdateStatistics from line 462 and IncomingRTPPacket lines 434-447: the *)
(* rest of the statistics and the last-received fields, in the same        *)
(* critical section.                                                       *)
RxFinalUpdate(w, f, now) ==
  LET r == w.rcv
      h == f.hdr
      in_order == IsFirstReport(r) \/ InOrderPacket(r, h.sequenceNumber)
      r1 == UpdateCounts(r, h, f.old_packet, now, GetFrequencyHz(w.reg))
      r3 == StoreLastReceived(r1, h, f.payload_data_length, f.old_packet, now)
  IN [w |-> [w EXCEPT
               !.rcv = r3,
               !.gh.hist = Append(@, [seq |-> h.sequenceNumber,
                                      in_order |-> in_order,
                                      wraps |-> r1.received_seq_wraps_]),
               !.gh.acc = Accessed(@, w.mutex, RxThread,
                                   {"statistics", "last_receive_time_"},
                                   TRUE),
               !.gh.one_shot.since_fire = TRUE,
               !.gh.one_shot.since_cb = TRUE],
      f |-> [f EXCEPT !.pc = "final_exit"]]

(* IncomingRTPPacket line 448: end of scope, return ret_val. *)
RxFinalExit(w, f) ==
  RxReturn([w EXCEPT !.mutex = Unlock(w.mutex, RxThread)], f, f.env.parse_ret)

(* The positions of IncomingRTPPacket that begin with taking the lock. *)
RxLockingPcs == {"ssrc_cs", "payload_cs", "csrc_cs", "parse", "final_cs"}

(* One step of IncomingRTPPacket. *)
RxStep(w, f, now) ==
  CASE f.pc = "validate" -> RxValidate(w, f)
    [] f.pc = "ssrc_cs" -> RxSsrcCs(w, f)
    [] f.pc = "ssrc_exit" -> RxSsrcExit(w, f)
    [] f.pc = "ssrc_cb" -> RxSsrcCallbacks(w, f)
    [] f.pc = "payload_cs" -> RxPayloadCs(w, f)
    [] f.pc = "payload_exit" -> RxPayloadExit(w, f)
    [] f.pc = "payload_cb" -> RxPayloadCallbacks(w, f)
    [] f.pc = "csrc_cs" -> RxCsrcCs(w, f)
    [] f.pc = "csrc_exit" -> RxCsrcExit(w, f)
    [] f.pc = "csrc_cb" -> RxCsrcCallbacks(w, f)
    [] f.pc = "parse" -> RxParse(w, f, now)
    [] f.pc = "final_cs" -> RxFinalCs(w, f, now)
    [] f.pc = "final_update" -> RxFinalUpdate(w, f, now)
    [] f.pc = "final_exit" -> RxFinalExit(w, f)

(* The frame at the entry of IncomingRTPPacket(rtp_header, packet,         *)
(* packet_length), called in the state w.                                  *)
RxEnter(pkt, w) ==
  [RxIdle EXCEPT !.pc = "validate", !.hdr = pkt.hdr,
                 !.packet_length = pkt.packet_length, !.body = pkt.body,
                 !.body_offset = pkt.hdr.headerLength, !.env = pkt.env,
                 !.pkt = pkt.hdr, !.pre = [rcv |-> w.rcv, reg |-> w.reg]]

RECURSIVE RxRun(_, _)
(* IncomingRTPPacket run to its return with no other thread in between:    *)
(* c is the shared state and the frame.                                    *)
RxRun(c, now) ==
  IF c.f.pc = "idle" THEN c ELSE RxRun(RxStep(c.w, c.f, now), now)


---------------------------------------------------------------------------
(* The timer thread. *)

(* PacketTimeout lines 148-167: the critical section. *)
TmTimeoutCs(w, f, now) ==
  LET r == w.rcv
      m == Lock(w.mutex, TimerThread)
      reads == IF r.packet_timeout_ms_ = 0 THEN {"packet_timeout_ms_"}
               ELSE {"packet_timeout_ms_", "last_receive_time_"}
      locked == [w EXCEPT
                   !.mutex = m,
                   !.gh.acc = Accessed(@, m, TimerThread, reads, FALSE)]
      fire == r.packet_timeout_ms_ # 0
              /\ ~HaveNotReceivedPackets(r)
              /\ now - r.last_receive_time_ > r.packet_timeout_ms_
  IN IF fire
     THEN [w |-> [locked EXCEPT
                    !.rcv.last_receive_time_ = 0,
                    !.reg = ResetLastReceivedPayloadTypes(w.reg),
                    !.gh.acc = Accessed(@, m, TimerThread,
                                        {"last_receive_time_"}, TRUE),
                    !.gh.timeouts = @ + 1,
                    !.gh.on_received = << >>,
                    !.gh.one_shot.refired = @ \/ ~w.gh.one_shot.since_fire,
                    !.gh.one_shot.since_fire = FALSE],
           f |-> [f EXCEPT !.packet_time_out = TRUE, !.now = now,
                           !.last_receive_time = r.last_receive_time_,
                           !.pc = "timeout_exit"]]
     ELSE [w |-> locked,
           f |-> [f EXCEPT !.packet_time_out = FALSE, !.now = now,
                           !.last_receive_time = r.last_receive_time_,
                           !.pc = "timeout_exit"]]

(* return, with the callback pending or not. *)
TmReturn(w, f) ==
  [w |-> [w EXCEPT !.gh.last = Returned("PacketTimeout", 0, NoHeader, f.cbs,
                                        FALSE)],
   f |-> TmIdle]

(* PacketTimeout line 167 (or the returns of lines 152 and 157). *)
TmTimeoutExit(w, f) ==
  LET w1 == [w EXCEPT !.mutex = Unlock(w.mutex, TimerThread)]
  IN IF f.packet_time_out
     THEN [w |-> w1, f |-> [f EXCEPT !.pc = "timeout_cb"]]
     ELSE TmReturn(w1, f)

(* PacketTimeout lines 168-170: the callback. *)
TmTimeoutCallback(w, f) ==
  TmReturn([w EXCEPT !.gh.one_shot.recalled = @ \/ ~w.gh.one_shot.since_cb,
                     !.gh.one_shot.since_cb = FALSE],
           [f EXCEPT !.cbs = Append(@, Call(w, TimerThread,
                                            "OnPacketTimeout", 0, FALSE))])

TmLockingPcs == {"timeout_cs"}

(* One step of PacketTimeout. *)
TmStep(w, f, now) ==
  CASE f.pc = "timeout_cs" -> TmTimeoutCs(w, f, now)
    [] f.pc = "timeout_exit" -> TmTimeoutExit(w, f)
    [] f.pc = "timeout_cb" -> TmTimeoutCallback(w, f)

TmEnter == [TmIdle EXCEPT !.pc = "timeout_cs"]

RECURSIVE TmRun(_, _)
(* PacketTimeout run to its return with no other thread in between. *)
TmRun(c, now) ==
  IF c.f.pc = "idle" THEN c ELSE TmRun(TmStep(c.w, c.f, now), now)

(* RTPAliveType, as the number handed to OnPeriodicDeadOrAlive. *)
kRtpDead == 0
kRtpNoRtp == 1
kRtpAlive == 2

(* The verdict of RTPReceiver::ProcessDeadOrAlive; media_alive is the      *)
(* media strategy's answer for the last payload length.                    *)
DeadOrAlive(r, rtcp_alive, now, media_alive) ==
  IF r.last_receive_time_ + kAliveWindowMs > now THEN kRtpAlive
  ELSE IF rtcp_alive THEN media_alive
  ELSE kRtpDead

---------------------------------------------------------------------------
(* State and actions. *)

(* The contributing sources that packets name, and the value 0, which the  *)
(* receiver uses as a CSRC of its own.                                     *)
kContributor == 7
kSecondContributor == 8
CsrcValues == {0, kContributor, kSecondContributor}

(* The values of a report that callers of Statistics receive. *)
ReportValues(out) ==
  [fraction_lost |-> out.fraction_lost, cum_lost |-> out.cum_lost,
   ext_max |-> out.ext_max, jitter |-> out.jitter,
   max_jitter |-> out.max_jitter,
   jitter_transmission_time_offset |-> out.jitter_transmission_time_offset]

(* History.  Since the statistics were last reset (or the receiver         *)
(* constructed): the packets UpdateStatistics counted, each with whether   *)
(* it advanced the sequence tracking and with seq_wraps after it (hist),   *)
(* whether ResetDataCounters was called (data_reset), the reports that     *)
(* Statistics(reset = true) generated (reports) and the last of them       *)
(* (snapshot).  Also the last operation that returned (last), the          *)
(* OnReceivedPacket callbacks since construction or the last timeout, each *)
(* with the SSRC and body length of its packet (on_received), the timeouts *)
(* fired (timeouts), what CheckSSRCChanged did in the last ingress call    *)
(* (identity), per CSRC value the additions announced less the removals    *)
(* (csrc_net) and how many operations the run has spent (n_steps).         *)
(* What the last getter call of the query thread returned: the getter, its *)
(* value, whether an IncomingRTPPacket call was in progress, and the value *)
(* the getter has before that call, as the call's CheckSSRCChanged leaves  *)
(* the receiver, and after the call.                                       *)
NoQuery ==
  [getter |-> "none", value |-> << >>, during |-> FALSE, before |-> << >>,
   identity |-> << >>, after |-> << >>]

(* The timeouts and the packets between them: whether a packet has        *)
(* completed ingress since the last time PacketTimeout cleared             *)
(* last_receive_time_ and since the last OnPacketTimeout callback, and     *)
(* whether there has been a clearing, or a callback, with no packet since  *)
(* the one before.                                                         *)
NoTimeout ==
  [since_fire |-> TRUE, since_cb |-> TRUE, refired |-> FALSE,
   recalled |-> FALSE]

HistoryInit ==
  [hist |-> << >>, data_reset |-> FALSE, reports |-> 0,
   snapshot |-> ReportValues(NoReport),
   last |-> Returned("constructor", 0, NoHeader, << >>, FALSE),
   on_received |-> << >>, timeouts |-> 0, identity |-> NoIdentity,
   csrc_net |-> [c \in CsrcValues |-> 0],
   seen |-> NoQuery,
   acc |-> {},
   one_shot |-> NoTimeout,
   steady |-> 0,
   jitter_start |-> 0,
   n_steps |-> 0]

(* A Statistics call: its argument, the receiver before it, its outputs. *)
NoStatisticsCall == [reset |-> FALSE, pre |-> ReceiverInit, out |-> NoReport]

(* stat: the Statistics calls made since the last other operation: how     *)
(* many (n), the last one (cur) and the one before it (prev).              *)
StatInit == [n |-> 0, cur |-> NoStatisticsCall, prev |-> NoStatisticsCall]

(* The clock when the receiver is constructed. *)
ClockStart == 1000

Init ==
  /\ rcv = ReceiverInit
  /\ reg = RegistryInit
  /\ mutex = NoThread
  /\ clock = ClockStart
  /\ rx = RxIdle
  /\ tm = TmIdle
  /\ stat = StatInit
  /\ gh = HistoryInit

(* The state shared by the threads. *)
World == [rcv |-> rcv, reg |-> reg, mutex |-> mutex, gh |-> gh]

(* The receiver has not been destroyed. *)
Alive == mutex # Deleted

(* No thread is inside IncomingRTPPacket or PacketTimeout. *)
Idle == Alive /\ rx.pc = "idle" /\ tm.pc = "idle"

(* A call of the host's that takes the lock, changes the shared state to w *)
(* and returns.                                                            *)
ApiCall(name, w) ==
  /\ mutex = NoThread
  /\ gh.n_steps < MaxSteps
  /\ rcv' = w.rcv
  /\ reg' = w.reg
  /\ gh' = [w.gh EXCEPT !.last = Returned(name, 0, NoHeader, << >>, FALSE),
                        !.n_steps = @ + 1]
  /\ stat' = StatInit
  /\ UNCHANGED <<mutex, clock, rx, tm>>

(* RTPReceiver::IncomingRTPPacket, run to its return. *)
IncomingRTPPacket(pkt) ==
  /\ Idle
  /\ gh.n_steps < MaxSteps
  /\ \E n \in {RxRun([w |-> World, f |-> RxEnter(pkt, World)], clock)} :
        /\ rcv' = n.w.rcv
        /\ reg' = n.w.reg
        /\ mutex' = n.w.mutex
        /\ gh' = [n.w.gh EXCEPT !.n_steps = @ + 1]
        /\ rx' = n.f
  /\ stat' = StatInit
  /\ UNCHANGED <<clock, tm>>

(* RTPReceiver::PacketTimeout, run to its return. *)
PacketTimeout ==
  /\ Idle
  /\ gh.n_steps < MaxSteps
  /\ \E n \in {TmRun([w |-> World, f |-> TmEnter], clock)} :
        /\ rcv' = n.w.rcv
        /\ reg' = n.w.reg
        /\ mutex' = n.w.mutex
        /\ gh' = [n.w.gh EXCEPT !.n_steps = @ + 1]
        /\ tm' = n.f
  /\ stat' = StatInit
  /\ UNCHANGED <<clock, rx>>

(* RTPReceiver::ProcessDeadOrAlive: no lock is taken. *)
ProcessDeadOrAlive(rtcp_alive, media_alive) ==
  /\ Alive
  /\ tm.pc = "idle"
  /\ gh.n_steps < MaxSteps
  /\ gh' = [gh EXCEPT
              !.last = Returned("ProcessDeadOrAlive", 0, NoHeader,
                                << Call(World, TimerThread,
                                        "OnPeriodicDeadOrAlive",
                                        DeadOrAlive(rcv, rtcp_alive, clock,
                                                    media_alive),
                                        FALSE) >>,
                                FALSE),
              !.acc = Accessed(@, mutex, TimerThread,
                               IF rcv.last_receive_time_ + kAliveWindowMs
                                    > clock
                                  \/ ~rtcp_alive
                               THEN {"last_receive_time_"}
                               ELSE {"last_receive_time_",
                                     "last_received_payload_length_"},
                               FALSE),
              !.n_steps = @ + 1]
  /\ stat' = StatInit
  /\ UNCHANGED <<rcv, reg, mutex, clock, rx, tm>>

(* RTPReceiver::Statistics(..., reset) *)
StatisticsCall(reset) ==
  /\ mutex = NoThread
  /\ gh.n_steps < MaxSteps
  /\ \E s \in {Statistics(rcv, reset)} :
        /\ rcv' = s.r
        /\ stat' = [n |-> IF stat.n = 0 THEN 1 ELSE 2,
                    cur |-> [reset |-> reset, pre |-> rcv, out |-> s.out],
                    prev |-> stat.cur]
        /\ gh' = [gh EXCEPT
                    !.last = Returned("Statistics", s.out.ret, NoHeader,
                                      << >>, FALSE),
                    !.reports = IF reset /\ s.out.ret = 0 THEN @ + 1 ELSE @,
                    !.snapshot = IF reset /\ s.out.ret = 0
                                 THEN ReportValues(s.out) ELSE @,
                    !.n_steps = @ + 1]
  /\ UNCHANGED <<reg, mutex, clock, rx, tm>>

(* RTPReceiver::ResetStatistics, called by the host. *)
ResetStatisticsCall == ApiCall("ResetStatistics", DoResetStatistics(World))

(* RTPReceiver::ResetDataCounters *)
ResetDataCountersCall ==
  ApiCall("ResetDataCounters",
          [World EXCEPT !.rcv = ResetDataCounters(rcv),
                        !.gh.data_reset = TRUE])

(* RTPReceiver::SetNACKStatus *)
SetNACKStatusCall(method, threshold) ==
  ApiCall("SetNACKStatus",
          [World EXCEPT !.rcv = SetNACKStatus(rcv, method, threshold)])

(* RTPReceiver::SetRTXStatus *)
SetRTXStatusCall(enable, ssrc) ==
  ApiCall("SetRTXStatus",
          [World EXCEPT !.rcv = SetRTXStatus(rcv, enable, ssrc)])

(* RTPReceiver::SetSSRCFilter *)
SetSSRCFilterCall(enable, ssrc) ==
  ApiCall("SetSSRCFilter",
          [World EXCEPT !.rcv = SetSSRCFilter(rcv, enable, ssrc)])

(* RTPReceiver::SetPacketTimeout *)
SetPacketTimeoutCall(timeout_ms) ==
  ApiCall("SetPacketTimeout",
          [World EXCEPT !.rcv = SetPacketTimeout(rcv, timeout_ms)])

(* RTPReceiver::RegisterReceivePayload *)
RegisterReceivePayload(pt) ==
  /\ pt \notin reg.payload_type_map
  /\ ApiCall("RegisterReceivePayload",
             [World EXCEPT !.reg = RegistryRegister(reg, pt)])

(* RTPReceiver::DeRegisterReceivePayload *)
DeRegisterReceivePayload(pt) ==
  /\ pt \in reg.payload_type_map
  /\ ApiCall("DeRegisterReceivePayload",
             [World EXCEPT !.reg = RegistryDeRegister(reg, pt)])

(* The receive thread enters IncomingRTPPacket. *)
RxBegin(pkt) ==
  /\ Alive
  /\ rx.pc = "idle"
  /\ gh.n_steps < MaxSteps
  /\ rx' = RxEnter(pkt, World)
  /\ gh' = [gh EXCEPT !.n_steps = @ + 1]
  /\ stat' = StatInit
  /\ UNCHANGED <<rcv, reg, mutex, clock, tm>>

(* The receive thread takes its next step in IncomingRTPPacket; it waits   *)
(* where the step takes the mutex and another thread holds it.             *)
RxNext ==
  /\ rx.pc # "idle"
  /\ rx.pc \in RxLockingPcs => mutex = NoThread
  /\ \E n \in {RxStep(World, rx, clock)} :
        /\ rcv' = n.w.rcv
        /\ reg' = n.w.reg
        /\ mutex' = n.w.mutex
        /\ gh' = n.w.gh
        /\ rx' = n.f
  /\ stat' = StatInit
  /\ UNCHANGED <<clock, tm>>

(* The timer thread enters PacketTimeout. *)
TmBegin ==
  /\ Alive
  /\ tm.pc = "idle"
  /\ gh.n_steps < MaxSteps
  /\ tm' = TmEnter
  /\ gh' = [gh EXCEPT !.n_steps = @ + 1]
  /\ stat' = StatInit
  /\ UNCHANGED <<rcv, reg, mutex, clock, rx>>

(* The timer thread takes its next step in PacketTimeout. *)
TmNext ==
  /\ tm.pc # "idle"
  /\ tm.pc \in TmLockingPcs => mutex = NoThread
  /\ \E n \in {TmStep(World, tm, clock)} :
        /\ rcv' = n.w.rcv
        /\ reg' = n.w.reg
        /\ mutex' = n.w.mutex
        /\ gh' = n.w.gh
        /\ tm' = n.f
  /\ stat' = StatInit
  /\ UNCHANGED <<clock, rx>>

(* RTPReceiver::~RTPReceiver lines 107-114, called when no thread is in    *)
(* the receiver: a callback for each remaining CSRC, then the mutex goes.  *)
Destructor ==
  /\ Idle
  /\ mutex = NoThread
  /\ gh.n_steps < MaxSteps
  /\ LET cbs == [i \in 1..rcv.num_csrcs_ |->
                  Call(World, HostThread, "OnIncomingCSRCChanged",
                       rcv.current_remote_csrc_[i], FALSE)]
     IN gh' = [gh EXCEPT
                 !.last = Returned("~RTPReceiver", 0, NoHeader, cbs, FALSE),
                 !.csrc_net = CsrcNetAfter(@, cbs),
                 !.n_steps = @ + 1]
  /\ mutex' = Deleted
  /\ stat' = StatInit
  /\ UNCHANGED <<rcv, reg, clock, rx, tm>>

(* The clock advances by ms milliseconds. *)
Tick(ms) ==
  /\ gh.n_steps < MaxSteps
  /\ clock' = clock + ms
  /\ gh' = [gh EXCEPT !.n_steps = @ + 1]
  /\ stat' = StatInit
  /\ UNCHANGED <<rcv, reg, mutex, rx, tm>>

---------------------------------------------------------------------------
(* Packets. *)

(* The length of the fixed RTP header. *)
kRtpHeaderLength == 12

(* A packet without CSRCs, padding or header extension; body holds the     *)
(* first bytes of its payload of body_length bytes, the others being 0.    *)
Packet(ssrc, seq, ts, pt, body, body_length) ==
  [hdr |-> [NoHeader EXCEPT !.ssrc = ssrc, !.sequenceNumber = seq,
                            !.timestamp = ts, !.payloadType = pt,
                            !.headerLength = kRtpHeaderLength],
   packet_length |-> kRtpHeaderLength + body_length,
   body |-> body,
   env |-> DefaultEnv]


---------------------------------------------------------------------------
(* Spec: one audio stream (SSRC 1, PCMU, 160-byte payloads, 20 ms and 160  *)
(* samples per packet) received by a single-threaded host that also reads  *)
(* and resets the statistics.                                              *)

kStreamSsrc == 1
kSamplesPerPacket == 160
kPayloadBytes == 160
kPacketIntervalMs == 20

(* The sequence numbers the stream's packets carry. *)
SequenceNumbers == {0, 1, 100, 103, 65534, 65535}

StreamPacket(seq) ==
  Packet(kStreamSsrc, seq, kSamplesPerPacket * seq, kPcmu, << >>,
         kPayloadBytes)

(* The host has registered PCMU. *)
InitRegistered ==
  /\ rcv = ReceiverInit
  /\ reg = RegistryRegister(RegistryInit, kPcmu)
  /\ mutex = NoThread
  /\ clock = ClockStart
  /\ rx = RxIdle
  /\ tm = TmIdle
  /\ stat = StatInit
  /\ gh = HistoryInit

Next ==
  \/ \E seq \in SequenceNumbers : IncomingRTPPacket(StreamPacket(seq))
  \/ \E reset \in BOOLEAN : StatisticsCall(reset)
  \/ ResetDataCountersCall
  \/ Tick(kPacketIntervalMs)

Spec == InitRegistered /\ [][Next]_vars


---------------------------------------------------------------------------
(* Properties of Spec. *)

(* The sequence numbers of the packets counted since the last reset. *)
Counted == [i \in 1..Len(gh.hist) |-> gh.hist[i].seq]

(* The statistics have counted exactly the packets of hist. *)
FreshCounts == ~gh.data_reset

AllInOrder == \A i \in 1..Len(gh.hist) : gh.hist[i].in_order

StrictlyIncreasing(q) == \A i \in 1..(Len(q) - 1) : q[i] < q[i + 1]

(* Each number is the successor modulo 2^16 of the one before it. *)
Consecutive(q) == \A i \in 1..(Len(q) - 1) : q[i + 1] = U16(q[i] + 1)

(* The places where q steps from 0xFFFF to 0x0000. *)
Crossings(q) == {i \in 1..(Len(q) - 1) : q[i] = 65535 /\ q[i + 1] = 0}

(* (seq_wraps << 16) + seq_max *)
ExtendedHighSeqNum(r) == (r.received_seq_wraps_ * 65536) + r.received_seq_max_

(* Statistics(reset) was the last thing to happen. *)
StatisticsReturned(reset) == stat.n > 0 /\ stat.cur.reset = reset

(* Statistics(reset) has just returned 0. *)
Reported(reset) == StatisticsReturned(reset) /\ stat.cur.out.ret = 0

(* C1: after n packets with unique, increasing sequence numbers, each      *)
(* accepted as in-order, received_inorder_packet_count is n and the        *)
(* extended highest sequence number is (seq_wraps << 16) | max(s_i).       *)
C1_InOrderCountAndHighest ==
  (FreshCounts /\ Len(Counted) > 0 /\ StrictlyIncreasing(Counted)
   /\ AllInOrder)
  => /\ rcv.received_inorder_packet_count_ = Len(Counted)
     /\ rcv.received_seq_max_ = Counted[Len(Counted)]
     /\ ExtendedHighSeqNum(rcv)
          = (rcv.received_seq_wraps_ * 65536) + Counted[Len(Counted)]

(* C2: consecutive sequence numbers that cross the 16-bit boundary once    *)
(* are all counted in-order, seq_wraps becomes 1 at the step from 0xFFFF   *)
(* to 0x0000 and not before, seq_max is the last sequence number and the   *)
(* extended highest sequence number, also as a report gives it, is         *)
(* 0x10000 + seq_max.                                                      *)
C2_WrapCountedOnce ==
  (FreshCounts /\ Consecutive(Counted) /\ Cardinality(Crossings(Counted)) = 1)
  => /\ AllInOrder
     /\ rcv.received_inorder_packet_count_ = Len(Counted)
     /\ \A i \in 1..Len(gh.hist) :
          gh.hist[i].wraps = IF \E k \in Crossings(Counted) : k < i
                             THEN 1 ELSE 0
     /\ rcv.received_seq_wraps_ = 1
     /\ rcv.received_seq_max_ = Counted[Len(Counted)]
     /\ ExtendedHighSeqNum(rcv) = 65536 + Counted[Len(Counted)]
     /\ Reported(TRUE) => stat.cur.out.ext_max = 65536 + Counted[Len(Counted)]

(* C2's case: 0xFFFE, 0xFFFF, 0x0000, 0x0001 have been ingested. *)
C2_Witness ==
  /\ FreshCounts
  /\ Counted = <<65534, 65535, 0, 1>>
  /\ rcv.received_seq_wraps_ = 1

(* The packets expected since the last report, (seq_max - last_report_     *)
(* seq_max) modulo 2^16, before the call whose pre-state is r.             *)
ExpectedSinceLast(r) ==
  U16(r.received_seq_max_
      - (IF r.last_report_inorder_packets_ = 0 THEN FirstReportSeqMax(r)
         ELSE r.last_report_seq_max_))

(* C5: a report's fraction_lost lies in 0..255, is 0 when as many packets  *)
(* were received as expected since the last report, and 255 when none was  *)
(* received and some were expected (here for a stream whose sequence       *)
(* numbers are consecutive).                                               *)
C5_FractionLost ==
  (Reported(TRUE) /\ Consecutive(Counted))
  => LET exp == ExpectedSinceLast(stat.cur.pre)
         rec == RecSinceLast(stat.cur.pre)
         fraction_lost == stat.cur.out.fraction_lost
     IN /\ fraction_lost \in 0..255
        /\ exp = rec => fraction_lost = 0
        /\ (rec = 0 /\ exp > 0) => fraction_lost = 255

(* C6: of two Statistics(reset = true) calls in a row, the first returning *)
(* 0, the second reports nothing missing, fraction_lost 0 and the same     *)
(* extended highest sequence number, and leaves the cumulative loss.       *)
C6_SecondReportEmpty ==
  (Reported(TRUE) /\ stat.n = 2 /\ stat.prev.reset /\ stat.prev.out.ret = 0)
  => /\ stat.cur.out.missing = 0
     /\ stat.cur.out.fraction_lost = 0
     /\ stat.cur.out.ext_max = stat.prev.out.ext_max
     /\ rcv.cumulative_loss_ = stat.cur.pre.cumulative_loss_

(* C7: Statistics(reset = false) leaves the receiver as it was; when it    *)
(* returns 0 its values are those of the last report that reset = true     *)
(* stored, and a second call in a row returns the same as the first.       *)
C7_GetLastReportIsPure ==
  StatisticsReturned(FALSE)
  => /\ rcv = stat.cur.pre
     /\ stat.cur.out.ret = 0
          => /\ gh.reports > 0
             /\ ReportValues(stat.cur.out) = gh.snapshot
     /\ (stat.n = 2 /\ ~stat.prev.reset) => stat.cur.out = stat.prev.out

(* C7's case: two reset = false calls in a row returned a report, after    *)
(* packets were counted since that report was stored.                      *)
C7_Witness ==
  /\ Reported(FALSE)
  /\ stat.n = 2
  /\ ~stat.prev.reset
  /\ stat.prev.out.ret = 0
  /\ rcv.received_inorder_packet_count_ > rcv.last_report_inorder_packets_

(* The first report after 100 and 103 were counted has just been made. *)
GapReported ==
  /\ Reported(TRUE)
  /\ FreshCounts
  /\ Counted = <<100, 103>>
  /\ gh.reports = 1

(* C8 as amended: after 100 and 103 the first report gives missing = 2 and *)
(* fraction_lost = (255 * 2) / 4 = 127: four packets were expected.        *)
C8_GapReport ==
  GapReported => /\ stat.cur.out.missing = 2
                 /\ stat.cur.out.exp_since_last = 4
                 /\ stat.cur.out.fraction_lost = 127

C8_Witness == GapReported

(* C8 as stated: missing = 2 and fraction_lost = (255 * 2) / 3 = 170. *)
C8_GapReportAsStated ==
  GapReported => /\ stat.cur.out.missing = 2
                 /\ stat.cur.out.fraction_lost = 170

---------------------------------------------------------------------------
(* SpecStream: two remote sources (SSRC 1 and 2) send PCMU packets and     *)
(* keep-alives of a payload type that is never registered, while the host  *)
(* registers and deregisters PCMU, arms the packet timeout, polls it, and  *)
(* reads and resets the statistics.                                        *)

kSecondSsrc == 2
kFirstSeq == 10
kTimeoutMs == 100
kSilenceMs == 150

Ssrcs == {kStreamSsrc, kSecondSsrc}

(* A PCMU packet of source ssrc. *)
MediaPacket(ssrc) ==
  Packet(ssrc, kFirstSeq, kSamplesPerPacket * kFirstSeq, kPcmu, << >>,
         kPayloadBytes)

(* A packet of source ssrc without a body, of an unregistered type. *)
KeepAlivePacket(ssrc) ==
  Packet(ssrc, kFirstSeq, kSamplesPerPacket * kFirstSeq, kUnknownPayloadType,
         << >>, 0)

NextStream ==
  \/ \E ssrc \in Ssrcs : IncomingRTPPacket(MediaPacket(ssrc))
  \/ \E ssrc \in Ssrcs : IncomingRTPPacket(KeepAlivePacket(ssrc))
  \/ RegisterReceivePayload(kPcmu)
  \/ DeRegisterReceivePayload(kPcmu)
  \/ SetPacketTimeoutCall(kTimeoutMs)
  \/ PacketTimeout
  \/ StatisticsCall(TRUE)
  \/ ResetStatisticsCall
  \/ Tick(kSilenceMs)

SpecStream == InitRegistered /\ [][NextStream]_vars

---------------------------------------------------------------------------
(* Properties of SpecStream. *)

(* The calls of the callback name that the last operation made. *)
CallsOf(name) == {i \in 1..Len(gh.last.cbs) : gh.last.cbs[i].name = name}

(* The statistics that ResetStatistics clears. *)
StatisticsOf(r) ==
  [jitter_q4_ |-> r.jitter_q4_,
   jitter_max_q4_ |-> r.jitter_max_q4_,
   jitter_q4_transmission_time_offset_ |->
     r.jitter_q4_transmission_time_offset_,
   cumulative_loss_ |-> r.cumulative_loss_,
   received_seq_first_ |-> r.received_seq_first_,
   received_seq_max_ |-> r.received_seq_max_,
   received_seq_wraps_ |-> r.received_seq_wraps_,
   received_byte_count_ |-> r.received_byte_count_,
   received_old_packet_count_ |-> r.received_old_packet_count_,
   received_inorder_packet_count_ |-> r.received_inorder_packet_count_,
   last_report_inorder_packets_ |-> r.last_report_inorder_packets_,
   last_report_old_packets_ |-> r.last_report_old_packets_,
   last_report_seq_max_ |-> r.last_report_seq_max_,
   last_report_fraction_lost_ |-> r.last_report_fraction_lost_,
   last_report_cumulative_lost_ |-> r.last_report_cumulative_lost_,
   last_report_extended_high_seq_num_ |->
     r.last_report_extended_high_seq_num_,
   last_report_jitter_ |-> r.last_report_jitter_,
   last_report_jitter_transmission_time_offset_ |->
     r.last_report_jitter_transmission_time_offset_]

(* The last operation was an ingress call in which CheckSSRCChanged met a  *)
(* packet whose SSRC differs from the current, non-zero, SSRC.             *)
SsrcDiffered ==
  /\ gh.last.op = "IncomingRTPPacket"
  /\ gh.identity.changed
  /\ gh.identity.old_ssrc # 0
  /\ gh.identity.old_ssrc # gh.last.hdr.ssrc

(* C3: a packet whose SSRC differs from the current non-zero SSRC fires    *)
(* exactly one OnIncomingSSRCChanged in its ingress call, the stored SSRC  *)
(* becomes the packet's, and right after the transition the statistics     *)
(* have their initial values.                                              *)
C3_SsrcChange ==
  SsrcDiffered
  => /\ Cardinality(CallsOf("OnIncomingSSRCChanged")) = 1
     /\ gh.identity.after.ssrc_ = gh.last.hdr.ssrc
     /\ StatisticsOf(gh.identity.after) = StatisticsOf(ReceiverInit)

(* C9: OnReceivedPacket fires once per stream: between two timeouts no two *)
(* of these callbacks are for packets of the same SSRC, and each is tagged *)
(* keep-alive exactly when its packet has no body.                         *)
C9_OnReceivedPacketOncePerStream ==
  \A i, j \in 1..Len(gh.on_received) :
     /\ gh.on_received[i].ssrc = gh.on_received[j].ssrc => i = j
     /\ gh.on_received[i].keep_alive <=> gh.on_received[i].body_length = 0

(* The sequence, timestamp and jitter state and the packet counts are 0. *)
SequenceStateZero(r) ==
  /\ r.received_seq_first_ = 0
  /\ r.received_seq_max_ = 0
  /\ r.received_seq_wraps_ = 0
  /\ r.last_received_timestamp_ = 0
  /\ r.last_received_sequence_number_ = 0
  /\ r.jitter_q4_ = 0
  /\ r.jitter_q4_transmission_time_offset_ = 0
  /\ r.received_inorder_packet_count_ = 0
  /\ r.received_old_packet_count_ = 0

(* C10 as stated: whenever last_receive_time is 0 the sequence, timestamp  *)
(* and jitter state and the packet counts are zero.                        *)
C10_IdleIsZero == HaveNotReceivedPackets(rcv) => SequenceStateZero(rcv)

(* C10 as amended: the same, as long as no packet timeout has fired;       *)
(* PacketTimeout makes the receiver idle and keeps the statistics.         *)
C10_IdleBeforeTimeoutIsZero ==
  (HaveNotReceivedPackets(rcv) /\ gh.timeouts = 0) => SequenceStateZero(rcv)

(* C10's case: a packet has come in and left the receiver idle, and the    *)
(* timer has polled without firing.                                        *)
C10_Witness ==
  /\ HaveNotReceivedPackets(rcv)
  /\ gh.timeouts = 0
  /\ Len(gh.on_received) > 0
  /\ rcv.ssrc_ # 0
  /\ gh.last.op = "PacketTimeout"

---------------------------------------------------------------------------
(* SpecThreads: the receive thread, the timer thread and a thread of the   *)
(* host's that queries and configures the receiver run concurrently; the   *)
(* receive and the timer thread advance one step at a time.  The sources   *)
(* send PCMU packets with and without a contributing source.               *)

ContributorLists == {<< >>, << kContributor >>}

(* A PCMU packet of source ssrc that lists the contributing sources csrcs. *)
MixedPacket(ssrc, csrcs) ==
  [hdr |-> [NoHeader EXCEPT !.ssrc = ssrc, !.sequenceNumber = kFirstSeq,
                            !.timestamp = kSamplesPerPacket * kFirstSeq,
                            !.payloadType = kPcmu,
                            !.arrOfCSRCs = csrcs,
                            !.headerLength =
                               kRtpHeaderLength + (4 * Len(csrcs))],
   packet_length |-> kRtpHeaderLength + (4 * Len(csrcs)) + kPayloadBytes,
   body |-> << >>,
   env |-> DefaultEnv]

NextThreads ==
  \/ \E ssrc \in Ssrcs, csrcs \in ContributorLists :
        RxBegin(MixedPacket(ssrc, csrcs))
  \/ RxNext
  \/ TmBegin
  \/ TmNext
  \/ \E rtcp_alive \in BOOLEAN : ProcessDeadOrAlive(rtcp_alive, kRtpNoRtp)
  \/ SetPacketTimeoutCall(kTimeoutMs)
  \/ StatisticsCall(TRUE)
  \/ Destructor
  \/ Tick(kSilenceMs)

SpecThreads == InitRegistered /\ [][NextThreads]_vars

---------------------------------------------------------------------------
(* Properties of SpecThreads. *)

(* The calls out of the receiver made by the operations in progress and by *)
(* the last one that returned.                                             *)
CallsMade == Range(rx.cbs) \cup Range(tm.cbs) \cup Range(gh.last.cbs)

(* C4: in every reachable state of every interleaving, no host callback    *)
(* has been invoked by a thread holding the receiver's mutex.              *)
C4_CallbacksOutsideLock ==
  \A c \in CallsMade : c.name \in HostCallbacks => ~c.locked

(* C4's case: while the timer thread holds the mutex in PacketTimeout, the *)
(* receive thread has made its SSRC-change callbacks.                      *)
C4_Witness ==
  /\ mutex = TimerThread
  /\ \E c \in Range(rx.cbs) : c.name = "OnIncomingSSRCChanged"
  /\ \E c \in Range(gh.last.cbs) \cup Range(rx.cbs) :
        c.name \in HostCallbacks \ {"OnIncomingSSRCChanged"}

---------------------------------------------------------------------------
(* SpecIngress: the packets that IncomingRTPPacket rejects, next to those  *)
(* it accepts.  Two sources send PCMU; packets arrive with more padding    *)
(* than bytes, of an unregistered payload type, as RED inside RED, or are  *)
(* refused by the media strategy's parser; a third SSRC carries            *)
(* retransmissions once the host has enabled RTX for it, and the host may  *)
(* restrict the receiver to the first source and register RED.             *)

kRtxSsrc == 9
kRtxSeq == 7
kOriginalSeq == 100
kPaddingBytes == 4

(* The packet pkt with padding_length bytes of padding declared. *)
Padded(pkt, padding_length) ==
  [pkt EXCEPT !.hdr.paddingLength = padding_length]

(* The packet pkt, which the media strategy's ParseRtpPacket refuses. *)
Unparsable(pkt) == [pkt EXCEPT !.env.parse_ret = -1]

(* A PCMU packet of source ssrc with more padding declared than it has     *)
(* bytes behind the header.                                                *)
MalformedPacket(ssrc) ==
  Padded(Packet(ssrc, kFirstSeq, kSamplesPerPacket * kFirstSeq, kPcmu,
                << >>, 0),
         kPaddingBytes)

(* A packet with a body, of a payload type nobody registered. *)
UnknownTypePacket(ssrc) ==
  Packet(ssrc, kFirstSeq, kSamplesPerPacket * kFirstSeq, kUnknownPayloadType,
         << >>, kPayloadBytes)

(* A RED packet whose first payload byte names RED again. *)
NestedRedPacket(ssrc) ==
  Packet(ssrc, kFirstSeq, kSamplesPerPacket * kFirstSeq, kRed, << kRed >>,
         kPayloadBytes)

(* A retransmission: the original sequence number, big-endian, in the two  *)
(* bytes behind the header, then the payload.                              *)
RtxPacket(body_length) ==
  Packet(kRtxSsrc, kRtxSeq, kSamplesPerPacket * kOriginalSeq, kPcmu,
         SubSeq(<< kOriginalSeq \div 256, kOriginalSeq % 256 >>, 1,
                IF body_length < 2 THEN body_length ELSE 2),
         body_length)

(* The packet pkt in a buffer where a read behind the packet's end finds   *)
(* byte.                                                                   *)
OutOfBounds(pkt, byte) == [pkt EXCEPT !.env.oob = byte]

IngressPackets ==
  {MediaPacket(kStreamSsrc), MediaPacket(kSecondSsrc),
   Unparsable(MediaPacket(kSecondSsrc)), UnknownTypePacket(kSecondSsrc),
   MalformedPacket(kStreamSsrc), NestedRedPacket(kStreamSsrc),
   RtxPacket(kPayloadBytes + 2), RtxPacket(1)}
  \union {OutOfBounds(Padded(RtxPacket(2), 1), byte) : byte \in {0, kRed}}

NextIngress ==
  \/ \E pkt \in IngressPackets : IncomingRTPPacket(pkt)
  \/ SetRTXStatusCall(TRUE, kRtxSsrc)
  \/ SetSSRCFilterCall(TRUE, kStreamSsrc)
  \/ RegisterReceivePayload(kRed)

SpecIngress == InitRegistered /\ [][NextIngress]_vars

---------------------------------------------------------------------------
(* Properties of SpecIngress. *)

(* The callbacks that announce a change of the stream's identity. *)
IdentityCallbacks ==
  {"OnIncomingSSRCChanged", "OnIncomingCSRCChanged", "OnInitializeDecoder"}

(* What claim C11 calls the receiver state: the stored SSRC, the payload   *)
(* binding, the CSRC list, the statistics and the last-received fields.    *)
IngressStateOf(r, g) ==
  [ssrc_ |-> r.ssrc_,
   last_received_payload_type |-> g.last_received_payload_type,
   last_received_media_payload_type |-> g.last_received_media_payload_type,
   num_csrcs_ |-> r.num_csrcs_,
   current_remote_csrc_ |-> r.current_remote_csrc_,
   statistics |-> StatisticsOf(r),
   received_packet_oh_ |-> r.received_packet_oh_,
   local_time_last_received_timestamp_ |->
     r.local_time_last_received_timestamp_,
   last_receive_time_ |-> r.last_receive_time_,
   last_received_payload_length_ |-> r.last_received_payload_length_,
   last_received_frame_time_ms_ |-> r.last_received_frame_time_ms_,
   last_received_timestamp_ |-> r.last_received_timestamp_,
   last_received_sequence_number_ |-> r.last_received_sequence_number_,
   last_received_transmission_time_offset_ |->
     r.last_received_transmission_time_offset_]

(* IncomingRTPPacket has just returned a negative code. *)
IngressFailed == gh.last.op = "IncomingRTPPacket" /\ gh.last.ret < 0

(* C11: when IncomingRTPPacket returns a negative code the receiver state  *)
(* is what it was before the call, and the call fired none of the          *)
(* identity-change callbacks.                                              *)
C11_FailedIngressChangesNothing ==
  IngressFailed
  => /\ IngressStateOf(rcv, reg)
          = IngressStateOf(gh.last.pre.rcv, gh.last.pre.reg)
     /\ \A c \in Range(gh.last.cbs) : c.name \notin IdentityCallbacks


---------------------------------------------------------------------------
(* SpecCsrc: a mixer (SSRC 1) sends PCMU packets that name zero, one or    *)
(* two contributing sources, also the same one twice; for some packets the *)
(* media strategy declines CSRC reporting.  Then the host destroys the     *)
(* receiver.                                                               *)

CsrcLists ==
  {<< >>, << kContributor >>, << kContributor, kContributor >>,
   << kContributor, kSecondContributor >>, << kSecondContributor >>,
   << 0 >>}

(* The packet pkt while ShouldReportCsrcChanges answers no. *)
Unreported(pkt) == [pkt EXCEPT !.env.report_csrc = FALSE]

NextCsrc ==
  \/ \E csrcs \in CsrcLists :
        IncomingRTPPacket(MixedPacket(kStreamSsrc, csrcs))
  \/ \E csrcs \in CsrcLists :
        IncomingRTPPacket(Unreported(MixedPacket(kStreamSsrc, csrcs)))
  \/ Destructor

SpecCsrc == InitRegistered /\ [][NextCsrc]_vars

---------------------------------------------------------------------------
(* Properties of SpecCsrc. *)

(* C12: when the receiver has been destroyed, every CSRC value has had as  *)
(* many OnIncomingCSRCChanged(c, false) callbacks as (c, true) ones.       *)
C12_CsrcCallbacksPaired ==
  ~Alive => \A c \in CsrcValues : gh.csrc_net[c] = 0


---------------------------------------------------------------------------
(* The query thread: getters called while IncomingRTPPacket runs step by   *)
(* step on the receive thread.                                             *)

Getters == {"SSRC", "DataCounters", "SequenceNumber", "TimeStamp"}

(* RTPReceiver::SSRC, DataCounters, SequenceNumber and TimeStamp: what the *)
(* getter returns of the receiver r, as a tuple of its out-values.         *)
Get(getter, r) ==
  CASE getter = "SSRC" -> << r.ssrc_ >>
    [] getter = "DataCounters" ->
         << r.received_byte_count_,
            r.received_old_packet_count_ + r.received_inorder_packet_count_ >>
    [] getter = "SequenceNumber" -> << r.last_received_sequence_number_ >>
    [] getter = "TimeStamp" -> << r.last_received_timestamp_ >>

(* The packet the frame f was entered with. *)
PacketOf(f) ==
  [hdr |-> f.pkt, packet_length |-> f.packet_length, body |-> f.body,
   env |-> f.env]

(* The receiver after the call of frame f has run alone from the state it  *)
(* was entered in.                                                         *)
AfterIngress(f, now) ==
  LET w0 == [rcv |-> f.pre.rcv, reg |-> f.pre.reg, mutex |-> NoThread,
             gh |-> HistoryInit]
  IN RxRun([w |-> w0, f |-> RxEnter(PacketOf(f), w0)], now).w.rcv

(* A getter called on the query thread: it takes the mutex, reads and      *)
(* returns.                                                                *)
QueryCall(getter) ==
  /\ Alive
  /\ mutex = NoThread
  /\ gh.n_steps < MaxSteps
  /\ gh' = [gh EXCEPT
              !.seen = [getter |-> getter,
                        value |-> Get(getter, rcv),
                        during |-> rx.pc # "idle",
                        before |-> IF rx.pc # "idle"
                                   THEN Get(getter, rx.pre.rcv)
                                   ELSE << >>,
                        identity |-> IF rx.pc \notin {"idle", "validate"}
                                        /\ gh.identity.changed
                                     THEN Get(getter, gh.identity.after)
                                     ELSE << >>,
                        after |-> IF rx.pc # "idle"
                                  THEN Get(getter, AfterIngress(rx, clock))
                                  ELSE << >>],
              !.last = Returned(getter, 0, NoHeader, << >>, FALSE),
              !.n_steps = @ + 1]
  /\ stat' = StatInit
  /\ UNCHANGED <<rcv, reg, mutex, clock, rx, tm>>

kNextSeq == 11

SnapshotPackets ==
  {MediaPacket(kStreamSsrc),
   Packet(kSecondSsrc, kNextSeq, kSamplesPerPacket * kNextSeq, kPcmu, << >>,
          kPayloadBytes)}

NextSnapshot ==
  \/ \E pkt \in SnapshotPackets : RxBegin(pkt)
  \/ RxNext
  \/ \E getter \in Getters : QueryCall(getter)
  \/ StatisticsCall(TRUE)

SpecSnapshot == InitRegistered /\ [][NextSnapshot]_vars

(* C13 as stated: a getter called while an IncomingRTPPacket call is in    *)
(* progress returns the value it has before that packet or the value it    *)
(* has after all of the packet's effects.                                  *)
C13_QuerySeesAllOrNothing ==
  gh.seen.during => gh.seen.value \in {gh.seen.before, gh.seen.after}

(* C13, amended: a getter called while an IncomingRTPPacket call is in     *)
(* progress returns the value it has before that packet, the value it has  *)
(* after all of the packet's effects, or the value the packet's identity   *)
(* change with its statistics reset leaves; and a Statistics call that     *)
(* reports has found a counted packet. Each of the call's critical         *)
(* sections is seen whole or not at all.                                   *)
C13_QuerySeesWholeSections ==
  /\ gh.seen.during =>
        gh.seen.value \in {gh.seen.before, gh.seen.after, gh.seen.identity}
  /\ Reported(TRUE) =>
        Get("DataCounters", stat.cur.pre)[2] >= 1

(* A getter has returned, during an ingress call, the value the identity   *)
(* change left, which is neither the one before nor the one after.         *)
C13_SeenBetweenSections ==
  /\ gh.seen.during
  /\ gh.seen.value = gh.seen.identity
  /\ gh.seen.value \notin {gh.seen.before, gh.seen.after}

---------------------------------------------------------------------------
(* The lock discipline, under SpecThreads. *)

(* C14: every read and every write of the receiver's members made by       *)
(* IncomingRTPPacket, PacketTimeout and ProcessDeadOrAlive is made while   *)
(* the calling thread holds the receiver's mutex.                          *)
C14_EveryAccessLocked == \A a \in gh.acc : a.locked

---------------------------------------------------------------------------
(* A stream of evenly spaced packets, of which the third may carry a       *)
(* timestamp that deviates.                                                *)

MaxDeviation == 548
MaxSteadyPackets == 64

(* The packet that follows the last one received by r in the stream, its   *)
(* timestamp deviating by e samples from the even spacing.                 *)
NextPacket(r, e) ==
  IF HaveNotReceivedPackets(r) THEN MediaPacket(kStreamSsrc)
  ELSE Packet(kStreamSsrc, r.last_received_sequence_number_ + 1,
              r.last_received_timestamp_ + kSamplesPerPacket + e, kPcmu,
              << >>, kPayloadBytes)

(* IncomingRTPPacket of the stream's next packet, kPacketIntervalMs after  *)
(* the one before. The history counts the evenly spaced packets since the last     *)
(* deviation and keeps the jitter the deviation left.                      *)
SpacedPacket(e) ==
  /\ Idle
  /\ gh.steady < MaxSteadyPackets
  /\ e # 0 => Len(gh.hist) = 2
  /\ clock' = clock + kPacketIntervalMs
  /\ \E n \in {RxRun([w |-> World,
                       f |-> RxEnter(NextPacket(rcv, e), World)],
                      clock + kPacketIntervalMs)} :
        /\ rcv' = n.w.rcv
        /\ reg' = n.w.reg
        /\ mutex' = n.w.mutex
        /\ gh' = [n.w.gh EXCEPT
                    !.steady = IF e = 0 THEN @ + 1 ELSE 0,
                    !.jitter_start = IF e = 0 THEN @
                                     ELSE n.w.rcv.jitter_q4_]
        /\ rx' = n.f
  /\ stat' = StatInit
  /\ UNCHANGED tm

NextJitter == \E e \in 0..MaxDeviation : SpacedPacket(e)

SpecJitter == InitRegistered /\ [][NextJitter]_vars

(* C15 as stated: after 64 evenly spaced packets jitter_q4 is 0. *)
C15_JitterZeroWithin64 == gh.steady >= 64 => rcv.jitter_q4_ = 0

(* C15, amended: over evenly spaced packets jitter_q4 does not grow; it is *)
(* 0 only if it was 0 when the even spacing began, and does not fall below *)
(* 8 from 8 or more; after 64 such packets it is at most 8, so that the    *)
(* jitter reported is 0, if it was at most 547 when the spacing began.     *)
C15_JitterSettles ==
  /\ rcv.jitter_q4_ <= gh.jitter_start
  /\ rcv.jitter_q4_ = 0 <=> gh.jitter_start = 0
  /\ gh.jitter_start >= 8 => rcv.jitter_q4_ >= 8
  /\ (gh.steady >= 64 /\ gh.jitter_start <= 547) =>
        /\ rcv.jitter_q4_ <= 8
        /\ Shr4(rcv.jitter_q4_) = 0

(* 64 evenly spaced packets have brought jitter_q4 from 547 down to 8. *)
C15_Witness ==
  /\ gh.steady = 64
  /\ gh.jitter_start = 547
  /\ rcv.jitter_q4_ = 8

---------------------------------------------------------------------------
(* RTX, under SpecIngress. *)

(* The last call was IncomingRTPPacket of a packet long enough for its     *)
(* header and padding.                                                     *)
IngressValidated ==
  /\ gh.last.op = "IncomingRTPPacket"
  /\ gh.last.packet_length - gh.last.pkt.paddingLength
        - gh.last.pkt.headerLength >= 0

(* ... and the packet carried the RTX SSRC while RTX was enabled. *)
IngressOfRtx ==
  /\ IngressValidated
  /\ gh.last.pre.rcv.rtx_
  /\ gh.last.pkt.ssrc = gh.last.pre.rcv.ssrc_rtx_

(* Byte i of the last packet's body, which follows its header. *)
BodyByte(i) == IF i <= Len(gh.last.body) THEN gh.last.body[i] ELSE 0

(* C16: an RTX packet too short for the two bytes of the original sequence *)
(* number is rejected; otherwise its SSRC becomes the receiver's SSRC, its *)
(* sequence number the big-endian value of the two bytes that follow the   *)
(* header, and its header two bytes longer. No other packet is remapped.   *)
C16_RtxRemap ==
  IngressValidated =>
    IF IngressOfRtx
    THEN IF gh.last.pkt.headerLength + 2 > gh.last.packet_length
         THEN gh.last.ret < 0
         ELSE /\ gh.last.hdr.ssrc = gh.last.pre.rcv.ssrc_
              /\ gh.last.hdr.sequenceNumber
                   = (256 * BodyByte(1)) + BodyByte(2)
              /\ gh.last.hdr.headerLength = gh.last.pkt.headerLength + 2
    ELSE /\ gh.last.hdr.ssrc = gh.last.pkt.ssrc
         /\ gh.last.hdr.sequenceNumber = gh.last.pkt.sequenceNumber
         /\ gh.last.hdr.headerLength = gh.last.pkt.headerLength

(* The packet of SSRC 9 and sequence number 7 has been received as one of  *)
(* SSRC 1 and sequence number 100, with a header of 14 bytes.              *)
C16_Witness ==
  /\ IngressOfRtx
  /\ gh.last.ret = 0
  /\ gh.last.pkt.ssrc = kRtxSsrc
  /\ gh.last.pkt.sequenceNumber = kRtxSeq
  /\ gh.last.pkt.headerLength = kRtpHeaderLength
  /\ gh.last.hdr.ssrc = kStreamSsrc
  /\ gh.last.hdr.sequenceNumber = kOriginalSeq
  /\ gh.last.hdr.headerLength = kRtpHeaderLength + 2
  /\ rcv.last_received_sequence_number_ = kOriginalSeq

---------------------------------------------------------------------------
(* The timer thread's PacketTimeout against the receive thread, on a       *)
(* receiver with a packet timeout set that has received a packet.          *)

InitTimer ==
  /\ \E n \in {RxRun([w |-> [rcv |-> SetPacketTimeout(ReceiverInit,
                                                        kTimeoutMs),
                               reg |-> RegistryRegister(RegistryInit, kPcmu),
                               mutex |-> NoThread,
                               gh |-> HistoryInit],
                        f |-> RxEnter(MediaPacket(kStreamSsrc),
                                      [rcv |-> SetPacketTimeout(ReceiverInit,
                                                                kTimeoutMs),
                                       reg |-> RegistryRegister(RegistryInit,
                                                                kPcmu)])],
                       ClockStart)} :
        /\ rcv = n.w.rcv
        /\ reg = n.w.reg
        /\ mutex = n.w.mutex
        /\ gh = n.w.gh
        /\ rx = n.f
  /\ clock = ClockStart
  /\ tm = TmIdle
  /\ stat = StatInit

TimeoutSettings == {0, kTimeoutMs}

NextTimer ==
  \/ RxBegin(MediaPacket(kStreamSsrc))
  \/ RxNext
  \/ TmBegin
  \/ TmNext
  \/ \E timeout_ms \in TimeoutSettings : SetPacketTimeoutCall(timeout_ms)
  \/ Tick(kSilenceMs)

SpecTimer == InitTimer /\ [][NextTimer]_vars

(* PacketTimeout has decided, and still holds the mutex. *)
TimeoutDecided == tm.pc = "timeout_exit"

(* What PacketTimeout decides: it fires exactly if a timeout is set, the   *)
(* receiver is not idle and the last packet is older than the timeout, and *)
(* firing clears last_receive_time_ and the last received payload type.    *)
TimeoutDecision ==
  TimeoutDecided =>
    /\ tm.packet_time_out <=>
          /\ rcv.packet_timeout_ms_ # 0
          /\ tm.last_receive_time # 0
          /\ tm.now - tm.last_receive_time > rcv.packet_timeout_ms_
    /\ IF tm.packet_time_out
       THEN /\ rcv.last_receive_time_ = 0
            /\ reg.last_received_payload_type = -1
       ELSE rcv.last_receive_time_ = tm.last_receive_time

(* C17 as stated: PacketTimeout fires exactly when a timeout is set, the   *)
(* receiver is not idle and the last packet is older than the timeout,     *)
(* clearing last_receive_time_ and the last received payload type; and     *)
(* between any two OnPacketTimeout callbacks a packet has completed        *)
(* ingress.                                                                *)
C17_TimeoutOneShot == TimeoutDecision /\ ~gh.one_shot.recalled

(* C17, amended: the same decision; and between any two critical sections  *)
(* of PacketTimeout that fire a packet has completed ingress.              *)
C17_TimeoutOneShotPerFiring == TimeoutDecision /\ ~gh.one_shot.refired

(* PacketTimeout has fired twice, a packet having completed ingress        *)
(* between the two critical sections but before the first callback.        *)
C17_Witness ==
  /\ gh.timeouts = 2
  /\ gh.one_shot.recalled
  /\ ~gh.one_shot.refired

---------------------------------------------------------------------------
(* The return code of Statistics, under Spec. *)

(* C18: Statistics returns -1 exactly when no packet has been counted, or  *)
(* when reset = false and no reset = true report has been generated; and   *)
(* returning -1 it leaves the receiver as it was.                          *)
C18_StatisticsFailsExactlyWhenEmpty ==
  \A reset \in BOOLEAN :
     StatisticsReturned(reset) =>
       /\ stat.cur.out.ret \in {-1, 0}
       /\ stat.cur.out.ret = -1 <=>
             \/ Len(gh.hist) = 0
             \/ ~reset /\ gh.reports = 0
       /\ stat.cur.out.ret = -1 => rcv = stat.cur.pre

---------------------------------------------------------------------------
(* One stream whose packets arrive out of order or twice, with and without *)
(* a round-trip time known.                                                *)

kRttMs == 300

RttValues == {0, kRttMs}

ReorderSequenceNumbers == {0, 1, 100, 101, 65535}

ReorderingThresholds == {0, 300}

(* The packet pkt arriving while RTT reports min_rtt. *)
WithRtt(pkt, min_rtt) == [pkt EXCEPT !.env.min_rtt = min_rtt]

NextReorder ==
  \/ \E seq \in ReorderSequenceNumbers, min_rtt \in RttValues :
        IncomingRTPPacket(WithRtt(StreamPacket(seq), min_rtt))
  \/ \E threshold \in ReorderingThresholds :
        SetNACKStatusCall(kNackRtcp, threshold)
  \/ Tick(kPacketIntervalMs)

SpecReorder == InitRegistered /\ [][NextReorder]_vars

(* The last call was IncomingRTPPacket, it counted its packet, and it was  *)
(* not the first to do so.                                                 *)
CountedAfterBootstrap ==
  /\ gh.last.op = "IncomingRTPPacket"
  /\ gh.last.ret = 0
  /\ Len(gh.hist) >= 2

(* C19: a packet the comparator rejects is counted as old if it is         *)
(* classified as a retransmission and as in-order otherwise, and leaves    *)
(* seq_max, seq_wraps, jitter_q4 and the local arrival timestamp alone; a  *)
(* packet the comparator accepts is never classified as a retransmission;  *)
(* and 100, 101, 100 with the last one a retransmission gives 2 in-order   *)
(* packets and 1 old one.                                                  *)
C19_OutOfOrderCounting ==
  CountedAfterBootstrap =>
    LET pre == gh.last.pre.rcv
        old == gh.last.old_packet
    IN IF InOrderPacket(pre, gh.last.hdr.sequenceNumber)
       THEN ~old
       ELSE /\ rcv.received_old_packet_count_
                 = pre.received_old_packet_count_ + (IF old THEN 1 ELSE 0)
            /\ rcv.received_inorder_packet_count_
                 = pre.received_inorder_packet_count_
                   + (IF old THEN 0 ELSE 1)
            /\ rcv.received_seq_max_ = pre.received_seq_max_
            /\ rcv.received_seq_wraps_ = pre.received_seq_wraps_
            /\ rcv.jitter_q4_ = pre.jitter_q4_
            /\ rcv.local_time_last_received_timestamp_
                 = pre.local_time_last_received_timestamp_
            /\ (Counted = << 100, 101, 100 >> /\ old) =>
                  /\ rcv.received_inorder_packet_count_ = 2
                  /\ rcv.received_old_packet_count_ = 1

---------------------------------------------------------------------------
(* The packets expected between two reports, under Spec. *)

(* seq_max of r lies ahead of the seq_max of its last report, modulo 2^16, *)
(* by less than half the range.                                            *)
AheadOfLastReport(r) ==
  U16(r.received_seq_max_ - r.last_report_seq_max_) < 32768

(* C20: a report that follows another, seq_max having moved ahead since,   *)
(* takes as expected since the last report seq_max - last_report_seq_max   *)
(* modulo 2^16, seq_max having wrapped or not, and counts what is missing  *)
(* of these in missing, fraction_lost and the cumulative loss.             *)
C20_ExpectedAcrossWrap ==
  (/\ Reported(TRUE)
   /\ stat.cur.pre.last_report_inorder_packets_ # 0
   /\ AheadOfLastReport(stat.cur.pre)) =>
    LET pre == stat.cur.pre
        exp == U16(pre.received_seq_max_ - pre.last_report_seq_max_)
        rec == RecSinceLast(pre)
        lost == IF exp > rec THEN exp - rec ELSE 0
    IN /\ stat.cur.out.exp_since_last = exp
       /\ stat.cur.out.missing = lost
       /\ stat.cur.out.fraction_lost
            = (IF exp # 0 THEN (255 * lost) \div exp ELSE 0)
       /\ rcv.cumulative_loss_ = pre.cumulative_loss_ + lost

---------------------------------------------------------------------------
(* The comparator at the wrap boundary, under SpecReorder. *)

(* The last packet counted came after the first one, to a receiver whose   *)
(* seq_max lay on one side of the boundary while the packet's sequence     *)
(* number lay on the other.                                                *)
WrapForward ==
  /\ CountedAfterBootstrap
  /\ ~IsFirstReport(gh.last.pre.rcv)
  /\ gh.last.pre.rcv.received_seq_max_ > 65280
  /\ gh.last.hdr.sequenceNumber < 255

WrapBackward ==
  /\ CountedAfterBootstrap
  /\ ~IsFirstReport(gh.last.pre.rcv)
  /\ gh.last.pre.rcv.received_seq_max_ < 255
  /\ gh.last.hdr.sequenceNumber > 65280

SsrcChangeFound ==
  /\ gh.last.op = "IncomingRTPPacket"
  /\ gh.identity.changed

(* The change is a restart of the same codec: the SSRC before it was       *)
(* non-zero and the packet has the last bound payload type.                *)
SameCodecRestart ==
  /\ gh.identity.old_ssrc # 0
  /\ gh.last.hdr.payloadType = gh.last.pre.reg.last_received_payload_type

(* The OnInitializeDecoder calls of the last ingress call that the         *)
(* payload-change check did not make: those not directly behind an         *)
(* InvokeOnInitializeDecoder.                                              *)
SsrcReinitCalls ==
  {i \in CallsOf("OnInitializeDecoder") :
     i = 1 \/ gh.last.cbs[i - 1].name # "InvokeOnInitializeDecoder"}

(* C22 as stated: on an SSRC change the ingress call makes, outside the    *)
(* mutex, one SetRemoteSSRC(new), then one OnIncomingSSRCChanged(new),     *)
(* then OnInitializeDecoder exactly when the old SSRC was non-zero and the *)
(* payload type is the last bound one; for such a restart that is the      *)
(* packet's only OnInitializeDecoder.                                      *)
C22_SsrcChangeCallbacks ==
  SsrcChangeFound =>
    /\ \E s, o \in 1..Len(gh.last.cbs) :
          /\ CallsOf("SetRemoteSSRC") = {s}
          /\ CallsOf("OnIncomingSSRCChanged") = {o}
          /\ s < o
          /\ gh.last.cbs[s].a = gh.last.hdr.ssrc
          /\ gh.last.cbs[o].a = gh.last.hdr.ssrc
          /\ ~gh.last.cbs[s].locked /\ ~gh.last.cbs[o].locked
          /\ \A i \in SsrcReinitCalls : o < i /\ ~gh.last.cbs[i].locked
    /\ Cardinality(SsrcReinitCalls) = (IF SameCodecRestart THEN 1 ELSE 0)
    /\ SameCodecRestart => Cardinality(CallsOf("OnInitializeDecoder")) = 1

(* C23: each ParseRtpPacket, CheckPayloadChanged and                        *)
(* InvokeOnInitializeDecoder call of the media strategy is made by a       *)
(* thread that does not hold the receiver's mutex.                         *)
C23_MediaStrategyUnlocked ==
  \A c \in CallsMade :
     c.name \in {"ParseRtpPacket", "CheckPayloadChanged",
                 "InvokeOnInitializeDecoder"} => ~c.locked

(***************************************************************************)
(* The callbacks of one CheckCSRC, against the lists before and after.     *)
(***************************************************************************)

(* The CSRC list the receiver held when the last ingress call began. *)
OldCsrcs ==
  SubSeq(gh.last.pre.rcv.current_remote_csrc_, 1,
         gh.last.pre.rcv.num_csrcs_)

(* The CSRC list of the last ingress call's header. *)
NewCsrcs == gh.last.hdr.arrOfCSRCs

(* The last ingress call ran CheckCSRC, reporting applied and a list was   *)
(* non-empty.                                                              *)
CsrcChecked ==
  /\ gh.last.op = "IncomingRTPPacket"
  /\ \E i \in CallsOf("ShouldReportCsrcChanges") : gh.last.cbs[i].b
  /\ Len(OldCsrcs) > 0 \/ Len(NewCsrcs) > 0

(* How many OnIncomingCSRCChanged(c, added) the last ingress call made. *)
CsrcCalls(c, added) ==
  Cardinality({i \in CallsOf("OnIncomingCSRCChanged") :
                 gh.last.cbs[i].a = c /\ gh.last.cbs[i].b = added})

(* How many entries of list are c, if c is in values and not in other. *)
Differing(c, list, other, values) ==
  IF c \in values /\ c \notin Range(other)
  THEN Cardinality({i \in 1..Len(list) : list[i] = c})
  ELSE 0

(* The callbacks are those of the symmetric difference over the CSRC       *)
(* values in values; without any, one (0, added) for a changed count and   *)
(* nothing for identical lists.                                            *)
CsrcDifferenceReported(values) ==
  LET add(c) == Differing(c, NewCsrcs, OldCsrcs, values)
      remove(c) == Differing(c, OldCsrcs, NewCsrcs, values)
      sentinel(c, added) ==
        IF c = 0 /\ added = (Len(NewCsrcs) > Len(OldCsrcs)) THEN 1 ELSE 0
  IN IF \E c \in CsrcValues : add(c) + remove(c) > 0
     THEN \A c \in CsrcValues :
             CsrcCalls(c, TRUE) = add(c) /\ CsrcCalls(c, FALSE) = remove(c)
     ELSE IF Len(NewCsrcs) # Len(OldCsrcs)
     THEN \A c \in CsrcValues : \A added \in BOOLEAN :
             CsrcCalls(c, added) = sentinel(c, added)
     ELSE NewCsrcs = OldCsrcs => CallsOf("OnIncomingCSRCChanged") = {}

(* C24 as stated: the CSRCs added and removed are announced for every      *)
(* CSRC value, 0 included; if none is, a changed count is announced by one *)
(* (0, added); identical lists announce nothing.                           *)
C24_CsrcDifference == CsrcChecked => CsrcDifferenceReported(CsrcValues)

(* C24, amended: the CSRCs added and removed are announced for every       *)
(* non-zero CSRC value and a zero entry is announced by no callback of its *)
(* own; if nothing is announced, a changed count is announced by one       *)
(* (0, added); identical lists announce nothing.                           *)
C24_NonZeroCsrcDifference ==
  CsrcChecked => CsrcDifferenceReported(CsrcValues \ {0})

(* A zero CSRC has replaced a non-zero one and only the removal was        *)
(* announced.                                                              *)
C24_Witness ==
  /\ CsrcChecked
  /\ 0 \in Range(NewCsrcs) /\ 0 \notin Range(OldCsrcs)
  /\ \E c \in Range(OldCsrcs) : c # 0 /\ CsrcCalls(c, FALSE) = 1
  /\ CsrcCalls(0, TRUE) = 0

(***************************************************************************)
(* The jitter estimate after one packet, against the one before it.        *)
(***************************************************************************)

(* The last ingress call counted a packet of the stream and payload type   *)
(* that were current, after at least one packet counted in order.          *)
CountedLaterPacket ==
  /\ gh.last.op = "IncomingRTPPacket"
  /\ gh.last.ret = 0
  /\ ~gh.identity.changed
  /\ gh.last.hdr.payloadType = gh.last.pre.reg.last_received_payload_type
  /\ gh.last.pre.rcv.received_inorder_packet_count_ >= 1

(* The absolute difference between the arrival spacing in samples and the  *)
(* RTP-timestamp spacing of the last packet, which arrived at the time the *)
(* receiver stored as last_receive_time_.                                  *)
SpacingDifference ==
  Abs((GetCurrentRTP(rcv.last_receive_time_, GetFrequencyHz(reg))
       - gh.last.pre.rcv.local_time_last_received_timestamp_)
      - (gh.last.hdr.timestamp - gh.last.pre.rcv.last_received_timestamp_))

(* The last packet was in order for the comparator and had a new           *)
(* timestamp.                                                              *)
InOrderNewTimestamp ==
  /\ InOrderPacket(gh.last.pre.rcv, gh.last.hdr.sequenceNumber)
  /\ gh.last.hdr.timestamp # gh.last.pre.rcv.last_received_timestamp_

(* C25: an in-order packet with a new timestamp that is not the first      *)
(* in-order packet leaves jitter_q4 alone when the spacing difference d is *)
(* 450000 or more and otherwise adds ((d << 4) - jitter_q4 + 8) >> 4,      *)
(* shifted arithmetically; any other packet leaves jitter_q4 alone.        *)
C25_JitterStep ==
  CountedLaterPacket =>
    LET j == gh.last.pre.rcv.jitter_q4_
        d == SpacingDifference
    IN rcv.jitter_q4_ =
         IF InOrderNewTimestamp /\ d < 450000
         THEN j + (((d * 16) - j + 8) \div 16)
         ELSE j

(***************************************************************************)
(* The report of Statistics(reset = true) with NACK off and with NACK on.  *)
(***************************************************************************)

(* What Statistics(reset = true) would have reported from the state the    *)
(* last Statistics call found, had the NACK method been method.            *)
ReportUnder(method) ==
  Statistics([stat.cur.pre EXCEPT !.nack_method_ = method], TRUE).out

IngressCompletes ==
  /\ gh'.n_steps = gh.n_steps + 1
  /\ clock' = clock
  /\ gh'.last.op = "IncomingRTPPacket"
  /\ gh'.last.ret >= 0
  /\ \E i \in 1..Len(gh'.last.cbs) : gh'.last.cbs[i].name = "ParseRtpPacket"

(* The last-received fields as the step's final critical section leaves    *)
(* them, given the receiver as CheckSSRCChanged left it.                   *)
LastReceivedStored(before) ==
  LET h == gh'.last.hdr
      new_timestamp == h.timestamp # before.last_received_timestamp_
  IN /\ rcv'.last_receive_time_ = clock'
     /\ IF gh'.last.old_packet
        THEN /\ rcv'.last_received_timestamp_
                  = before.last_received_timestamp_
             /\ rcv'.last_received_frame_time_ms_
                  = before.last_received_frame_time_ms_
             /\ rcv'.last_received_sequence_number_
                  = before.last_received_sequence_number_
             /\ rcv'.last_received_transmission_time_offset_
                  = before.last_received_transmission_time_offset_
        ELSE /\ rcv'.last_received_sequence_number_ = h.sequenceNumber
             /\ rcv'.last_received_transmission_time_offset_
                  = h.transmissionTimeOffset
             /\ rcv'.last_received_timestamp_
                  = IF new_timestamp THEN h.timestamp
                    ELSE before.last_received_timestamp_
             /\ rcv'.last_received_frame_time_ms_
                  = IF new_timestamp THEN clock'
                    ELSE before.last_received_frame_time_ms_

(* C27: a packet that completes ingress sets last_receive_time to the      *)
(* clock; an old retransmission leaves the last received timestamp, frame  *)
(* time, sequence number and transmission time offset alone; any other     *)
(* packet records its sequence number and offset, and its timestamp and    *)
(* the frame time only if its timestamp is new.                            *)
C27_LastReceivedStores ==
  [][IngressCompletes =>
       LastReceivedStored(IF gh'.identity.changed THEN gh'.identity.after
                          ELSE rcv)]_vars

(* An old retransmission has completed ingress after time had passed, and  *)
(* the receiver still holds another packet's sequence number.              *)
C27_Witness ==
  /\ gh.last.op = "IncomingRTPPacket"
  /\ gh.last.ret = 0
  /\ gh.last.old_packet
  /\ rcv.last_received_sequence_number_ # gh.last.hdr.sequenceNumber
  /\ rcv.last_receive_time_ > gh.last.pre.rcv.last_receive_time_
  /\ gh.last.pre.rcv.last_receive_time_ > 0

(***************************************************************************)
(* The is_first_packet flag of ParseRtpPacket.                             *)
(***************************************************************************)

(* The receiver as the last ingress call's CheckSSRCChanged left it. *)
AfterSsrcCheck ==
  IF gh.identity.changed THEN gh.identity.after ELSE gh.last.pre.rcv

(* The last packet's sequence number follows the last received one modulo  *)
(* 2^16 and its timestamp is new.                                          *)
SuccessorWithNewTimestamp ==
  /\ gh.last.hdr.sequenceNumber
       = (AfterSsrcCheck.last_received_sequence_number_ + 1) % 65536
  /\ gh.last.hdr.timestamp # AfterSsrcCheck.last_received_timestamp_

(* C28: ParseRtpPacket is handed is_first_packet = true whenever the       *)
(* packet's sequence number is the successor modulo 2^16 of the last       *)
(* received one and its timestamp differs from the last received one, the  *)
(* step from 0xFFFF to 0x0000 included, and whenever the receiver is idle. *)
C28_FirstPacketFlag ==
  gh.last.op = "IncomingRTPPacket" =>
    \A i \in CallsOf("ParseRtpPacket") :
       SuccessorWithNewTimestamp \/ AfterSsrcCheck.last_receive_time_ = 0
       => gh.last.cbs[i].b

(***************************************************************************)
(* A stream that changes between two registered audio payload types, with  *)
(* a media strategy that may discard the change and a decoder whose        *)
(* initialisation may fail.                                                *)
(***************************************************************************)

(* The packet pkt while the media strategy's CheckPayloadChanged answers   *)
(* should_discard_changes = discard and InvokeOnInitializeDecoder returns  *)
(* init_ret.                                                               *)
Answering(pkt, discard, init_ret) ==
  [pkt EXCEPT !.env.discard = discard, !.env.init_ret = init_ret]

PayloadPackets ==
  {Answering(Packet(ssrc, seq, kSamplesPerPacket * seq, pt, << >>,
                    kPayloadBytes), discard, init_ret) :
     ssrc \in Ssrcs, seq \in {kFirstSeq, kNextSeq}, pt \in {kPcmu, kPcma},
     discard \in BOOLEAN, init_ret \in {0, -1}}

NextPayload ==
  \/ \E pkt \in PayloadPackets : IncomingRTPPacket(pkt)
  \/ RegisterReceivePayload(kPcma)

SpecPayload == InitRegistered /\ [][NextPayload]_vars

(* The last ingress call counted its packet. *)
Accepted ==
  /\ gh.last.op = "IncomingRTPPacket"
  /\ gh.last.ret = 0
  /\ CallsOf("ParseRtpPacket") # {}

(* The last packet's payload type was registered, audio and not RED, and   *)
(* was not the last received one, and the media strategy did not discard   *)
(* the change.                                                             *)
PayloadTypeChanged ==
  /\ Accepted
  /\ gh.last.hdr.payloadType \in gh.last.pre.reg.payload_type_map
  /\ PayloadSpec(gh.last.hdr.payloadType).audio
  /\ ~PayloadSpec(gh.last.hdr.payloadType).red
  /\ gh.last.hdr.payloadType # gh.last.pre.reg.last_received_payload_type
  /\ \E i \in CallsOf("CheckPayloadChanged") : ~gh.last.cbs[i].b

(* The last packet's payload type was the last received one. *)
PayloadTypeKept ==
  /\ Accepted
  /\ gh.last.hdr.payloadType = gh.last.pre.reg.last_received_payload_type

(* C29: an accepted packet of a registered non-RED audio payload type that *)
(* is not the last received one, the change not discarded, binds that      *)
(* type, has the statistics reset before it is counted and                 *)
(* OnInitializeDecoder invoked once, outside the critical section that     *)
(* made the reset; a packet of the last received type causes neither a     *)
(* reset nor an OnInitializeDecoder from the payload check.                *)
C29_PayloadChangeReinitialises ==
  /\ PayloadTypeChanged =>
        /\ reg.last_received_payload_type = gh.last.hdr.payloadType
        /\ Len(gh.hist) = 1
        /\ rcv.received_inorder_packet_count_ = 1
        /\ rcv.received_seq_first_ = gh.last.hdr.sequenceNumber
        /\ rcv.received_seq_max_ = gh.last.hdr.sequenceNumber
        /\ \E c \in CallsOf("CheckPayloadChanged"), i \in 1..Len(gh.last.cbs) :
              /\ CallsOf("OnInitializeDecoder") = {i}
              /\ c < i
              /\ gh.last.cbs[c].locked
              /\ ~gh.last.cbs[i].locked
  /\ PayloadTypeKept =>
        /\ CallsOf("InvokeOnInitializeDecoder") = {}
        /\ CallsOf("CheckPayloadChanged") = {}
        /\ ~gh.identity.changed =>
              rcv.received_inorder_packet_count_
                + rcv.received_old_packet_count_
              = gh.last.pre.rcv.received_inorder_packet_count_
                + gh.last.pre.rcv.received_old_packet_count_ + 1

(* A stream of one payload type has changed to another registered audio    *)
(* type, and the packet was counted as the first.                          *)
C29_Witness ==
  /\ PayloadTypeChanged
  /\ gh.last.pre.reg.last_received_payload_type \in {kPcmu, kPcma}
  /\ gh.last.pre.rcv.received_inorder_packet_count_ >= 1
  /\ rcv.received_inorder_packet_count_ = 1
  /\ CallsOf("OnInitializeDecoder") # {}

(***************************************************************************)
(* The extended highest sequence number from one packet to the next.       *)
(***************************************************************************)

(* (seq_wraps << 16) + seq_max of the receiver r. *)
ExtendedHighest(r) == (r.received_seq_wraps_ * 65536) + r.received_seq_max_

(* C30: from one counted packet to the next without a statistics reset in  *)
(* between, the extended highest sequence number does not decrease; it     *)
(* grows on a packet the comparator accepts as in-order, with a wrap       *)
(* counted when the packet's sequence number is below seq_max, and stays   *)
(* on an out-of-order packet.                                              *)
C30_ExtendedHighestMonotone ==
  CountedAfterBootstrap =>
    LET before == gh.last.pre.rcv
        seq == gh.last.hdr.sequenceNumber
    IN /\ ExtendedHighest(rcv) >= ExtendedHighest(before)
       /\ InOrderPacket(before, seq) =>
             /\ ExtendedHighest(rcv) > ExtendedHighest(before)
             /\ seq < before.received_seq_max_ =>
                   rcv.received_seq_wraps_ = before.received_seq_wraps_ + 1
       /\ ~InOrderPacket(before, seq) =>
             ExtendedHighest(rcv) = ExtendedHighest(before)

(***************************************************************************)
(* The body a validated packet has left, and the read of its first byte.   *)
(***************************************************************************)

(* The last ingress call read the packet's first payload byte, which it    *)
(* does for every packet of positive unpadded length that got past the     *)
(* length validation, the RTX remapping and the SSRC filter.               *)
FirstPayloadByteRead ==
  /\ gh.last.op = "IncomingRTPPacket"
  /\ gh.last.first_payload_byte_index >= 0

(* C31: a packet that got past length validation and RTX remapping has a   *)
(* non-negative body length packet_length - padding_length -               *)
(* header_length, with the header length the remapping left, and the index *)
(* at which its first payload byte is read is inside the packet.           *)
C31_BodyInsidePacket ==
  FirstPayloadByteRead =>
    /\ gh.last.packet_length - gh.last.hdr.paddingLength
         - gh.last.hdr.headerLength >= 0
    /\ gh.last.first_payload_byte_index < gh.last.packet_length

(***************************************************************************)
(* A stream that falls silent, times out and resumes; the remote SSRC may  *)
(* be 0.                                                                   *)
(***************************************************************************)

RestartPackets ==
  {Packet(ssrc, seq, kSamplesPerPacket * seq, kPcmu, << >>, kPayloadBytes) :
     ssrc \in {0, kStreamSsrc}, seq \in {0, kFirstSeq}}

NextRestart ==
  \/ \E pkt \in RestartPackets : IncomingRTPPacket(pkt)
  \/ SetPacketTimeoutCall(kTimeoutMs)
  \/ PacketTimeout
  \/ Tick(kSilenceMs)

SpecRestart == InitRegistered /\ [][NextRestart]_vars

(* The last ingress call accepted the first packet after a timeout, of the *)
(* SSRC and the registered audio payload type the stream had before it.    *)
ResumedAfterTimeout ==
  /\ Accepted
  /\ gh.timeouts > 0
  /\ gh.last.pre.rcv.last_receive_time_ = 0
  /\ gh.last.pre.rcv.ssrc_ = gh.last.hdr.ssrc
  /\ gh.last.pre.reg.last_received_payload_type = -1
  /\ gh.last.pre.reg.last_media_specific_payload = gh.last.hdr.payloadType
  /\ gh.last.hdr.payloadType \in gh.last.pre.reg.payload_type_map
  /\ PayloadSpec(gh.last.hdr.payloadType).audio

(* C32: the first accepted packet after a timeout, of the same SSRC and    *)
(* registered audio payload type as before, fires OnReceivedPacket again,  *)
(* binds the payload type again, has the statistics restart from it and    *)
(* OnInitializeDecoder invoked once, and fires no OnIncomingSSRCChanged;   *)
(* the last received timestamp and sequence number are not cleared, so a   *)
(* packet that is not recorded leaves the values from before the timeout.  *)
C32_ResumeIsPayloadChange ==
  ResumedAfterTimeout =>
    /\ Cardinality(CallsOf("OnReceivedPacket")) = 1
    /\ reg.last_received_payload_type = gh.last.hdr.payloadType
    /\ Len(gh.hist) = 1
    /\ rcv.received_inorder_packet_count_ = 1
    /\ rcv.received_seq_first_ = gh.last.hdr.sequenceNumber
    /\ rcv.received_seq_max_ = gh.last.hdr.sequenceNumber
    /\ Cardinality(CallsOf("OnInitializeDecoder")) = 1
    /\ CallsOf("OnIncomingSSRCChanged") = {}
    /\ gh.last.old_packet =>
          /\ rcv.last_received_timestamp_
               = gh.last.pre.rcv.last_received_timestamp_
          /\ rcv.last_received_sequence_number_
               = gh.last.pre.rcv.last_received_sequence_number_

====
